---- MODULE Spec2Model ----
(***************************************************************************)
(* Bidirectional transforms ("mirrors"): the Mirror class, the combinators *)
(* pipe, all, oneOf, fallback, lazy, branch, filter and the wrappers       *)
(* array, nullable, object that are built around them.                     *)
(*                                                                         *)
(* A JavaScript session is modelled as a heap of Mirror objects.  Every    *)
(* constructor call is one action that appends the new Mirror; every       *)
(* forward / backward / tryForward / tryBackward call is one action that   *)
(* runs the closures of the called Mirror to completion and records the    *)
(* outcome (returned value or raised value) with the ordered log of the    *)
(* constituent calls it made.                                              *)
(***************************************************************************)
EXTENDS Integers, Sequences, FiniteSets, TLC

\* ---- bounds -------------------------------------------------------------
MaxVal == 2          \* numbers are 0..MaxVal
MaxMirrors == 2      \* Mirror objects a session constructs (besides the fixtures)
MaxArity == 2        \* arguments of a variadic combinator call
MaxStack == 6        \* nested calls before the engine raises RangeError
MaxFactoryCalls == 2 \* factory invocations recorded per lazy cell

VARIABLES
  heap,         \* the Mirror objects, in construction order
  tables,       \* the key -> Mirror tables handed to all() and object()
  cached,       \* the cell the closures of each Mirror share: lazy()'s `cached`
                \* (0 = undefined), pattern()'s regex.lastIndex
  factoryCalls, \* lazy(): how often each lazy Mirror's factory was invoked
  res,          \* the last call of the session and what it produced
  mem           \* the arrays, Sets and plain objects handed to deepEqual, by reference

vars == <<heap, tables, cached, factoryCalls, res, mem>>

\* ---- JavaScript values ----------------------------------------------------
Num(n) == [t |-> "number", n |-> n]
Str(s) == [t |-> "string", s |-> s]
Undefined == [t |-> "undefined"]
Null == [t |-> "null"]
Arr(s) == [t |-> "array", s |-> s]
\* a plain object: its own keys in insertion order and their values
Obj(ks, f) == [t |-> "object", ks |-> ks, f |-> f]
EmptyObj == Obj(<<>>, [k \in {} |-> Undefined])
\* an Error instance (new Error(message))
ErrorObj(msg) == [t |-> "Error", message |-> msg]
\* a reference to a Mirror object of the heap
Ref(i) == [t |-> "mirror", i |-> i]
\* a Result<T> object as tryForward / tryBackward build it
ResultOk(v) == [t |-> "Result", ok |-> TRUE, value |-> v]
ResultFail(e) == [t |-> "Result", ok |-> FALSE, error |-> e]

\* how a call ends: it returns a value or raises one
Return(v) == [kind |-> "return", val |-> v]
Throw(e) == [kind |-> "throw", val |-> e]

\* a boolean
Bool(b) == [t |-> "boolean", b |-> b]

IsNum(v) == v.t = "number"
IsErrorInstance(v) == v.t = "Error"

Nums == {Num(n) : n \in 0..MaxVal}
Modulus == MaxVal + 1

Digits == <<"0", "1", "2", "3", "4", "5", "6", "7", "8", "9">>
NumStr(n) == IF n \in 0..9 THEN Digits[n + 1] ELSE "many"

\* String(e) for the values a fixture raises
ToStr(v) ==
  CASE v.t = "string" -> v.s
    [] v.t = "number" -> NumStr(v.n)
    [] v.t = "undefined" -> "undefined"
    [] v.t = "null" -> "null"
    [] v.t = "Error" -> v.message
    [] v.t = "array" -> "array"
    [] OTHER -> "[object Object]"

HasKey(v, k) == v.t = "object" /\ k \in DOMAIN v.f

\* a read that gives the whole object for each of its keys
GetPropWhole(v, k) == Return(v)

\* obj[key] as JavaScript evaluates it: raises on undefined and null
GetProp(v, k) ==
  CASE v.t \in {"undefined", "null"} -> Throw(ErrorObj("TypeError: cannot read properties"))
    [] HasKey(v, k) -> Return(v.f[k])
    [] OTHER -> Return(Undefined)

\* an assignment that leaves the object as it was
SetPropDropped(o, k, v) == o

\* result[key] = value on a plain object
SetProp(o, k, v) ==
  Obj(IF k \in DOMAIN o.f THEN o.ks ELSE Append(o.ks, k),
      [x \in DOMAIN o.f \cup {k} |-> IF x = k THEN v ELSE o.f[x]])

\* a Date with timestamp ts
Date(ts) == [t |-> "date", ts |-> ts]
\* typeof v === 'object'
TypeofObject(v) == v.t \in {"null", "array", "object", "date", "Error", "Result", "mirror"}
\* Object.keys(v) of an object that is not an array
OwnKeys(v) == IF v.t = "object" THEN v.ks ELSE <<>>

\* constraints.ts deepEqual(a, b): ===, then arrays by place and every other pair
\* of objects by Object.keys
RECURSIVE deepEqualDefault(_, _)
deepEqualDefault(a, b) ==
  IF a = b /\ ~TypeofObject(a) THEN TRUE
  ELSE IF a.t = "null" \/ b.t = "null" THEN FALSE
  ELSE IF ~TypeofObject(a) \/ ~TypeofObject(b) THEN FALSE
  ELSE IF a.t = "array" /\ b.t = "array"
       THEN /\ Len(a.s) = Len(b.s)
            /\ \A k \in 1..Len(a.s) : deepEqualDefault(a.s[k], b.s[k])
  ELSE IF a.t = "array" \/ b.t = "array" THEN FALSE
  ELSE /\ Len(OwnKeys(a)) = Len(OwnKeys(b))
       /\ \A k \in 1..Len(OwnKeys(a)) :
            /\ OwnKeys(a)[k] \in DOMAIN b.f
            /\ deepEqualDefault(a.f[OwnKeys(a)[k]], b.f[OwnKeys(a)[k]])

\* deepEqual(a, b): Object.is, then arrays element by element and plain objects
\* key by key, whatever the order of their keys; two different objects of
\* another kind (Error, Mirror) are not equal
RECURSIVE deepEqual(_, _)
deepEqual(a, b) ==
  IF a.t # b.t THEN FALSE
  ELSE CASE a.t = "array" ->
              /\ Len(a.s) = Len(b.s)
              /\ \A k \in 1..Len(a.s) : deepEqual(a.s[k], b.s[k])
         [] a.t = "object" ->
              /\ Len(a.ks) = Len(b.ks)
              /\ \A k \in 1..Len(a.ks) :
                   /\ a.ks[k] \in DOMAIN b.f
                   /\ deepEqual(a.f[a.ks[k]], b.f[a.ks[k]])
         [] a.t = "Result" ->
              /\ a.ok = b.ok
              /\ IF a.ok THEN deepEqual(a.value, b.value) ELSE deepEqual(a.error, b.error)
         [] OTHER -> a = b

\* ---- fixtures: the user functions handed to mirror() and lossy() -----------
Fixtures == <<"succ", "small", "zero", "half", "low">>
\* the numbers a half is taken of: 0..Half
Half == MaxVal \div 2

\* succ  = mirror(n => (n + 1) % M, n => (n + M - 1) % M)
\* small = lossy(n => { if (n > 1) throw new Error(..); return n },
\*               n => { if (n > 1) throw new Error(..); return n })
\* zero  = mirror(n => { if (n !== 0) throw 'zero.forward'; return 1 },
\*                n => { if (n !== 1) throw 'zero.backward'; return 0 })
\* half  = mirror(n => Math.floor(n / 2),
\*               n => { if (n > Half) throw new Error(..); return 2 * n })
\* low   = mirror(n => { if (n > 1) throw new Error(..); return n }, the same)
\* each of them raises a TypeError on an argument that is not a number
FixtureFn(p, dir, x) ==
  IF ~IsNum(x) THEN Throw(ErrorObj("TypeError: not a number"))
  ELSE CASE p = "succ" ->
              IF dir = "forward" THEN Return(Num((x.n + 1) % Modulus))
              ELSE Return(Num((x.n + Modulus - 1) % Modulus))
         [] p = "small" ->
              IF x.n > 1 THEN Throw(ErrorObj(IF dir = "forward" THEN "small.forward"
                                                               ELSE "small.backward"))
              ELSE Return(x)
         [] p = "half" ->
              IF dir = "forward" THEN Return(Num(x.n \div 2))
              ELSE IF x.n > Half THEN Throw(ErrorObj("half.backward"))
                   ELSE Return(Num(2 * x.n))
         [] p = "low" ->
              IF x.n > 1 THEN Throw(ErrorObj(IF dir = "forward" THEN "low.forward"
                                                               ELSE "low.backward"))
              ELSE Return(x)
         [] OTHER ->
              IF dir = "forward"
              THEN IF x.n # 0 THEN Throw(Str("zero.forward")) ELSE Return(Num(1))
              ELSE IF x.n # 1 THEN Throw(Str("zero.backward")) ELSE Return(Num(0))

Preds == {"isZero", "positive"}
PredFn(p, x) ==
  IF ~IsNum(x) THEN FALSE
  ELSE IF p = "isZero" THEN x.n = 0 ELSE x.n > 0

\* ---- Mirror objects ----------------------------------------------------------
\* meta.lossy is "absent" when the metadata node has no lossy field, and
\* meta.description is Undefined when it has no description
Meta(type, lossy, parts) ==
  [type |-> type, lossy |-> lossy, parts |-> parts, description |-> Undefined]

\* new Mirror(forward, backward, meta): `type` names the pair of closures,
\* the other fields are what those closures captured.  A Mirror made by a
\* combinator owns its closures and its metadata node (closure = 0, node = 0);
\* a Mirror made from another Mirror's functions or node names their owner.
\* swap says that forward holds the backward closure and backward the forward one.
NewMirror(type, fn, kids, keys, tab, target, meta) ==
  [type |-> type, fn |-> fn, kids |-> kids, keys |-> keys, tab |-> tab,
   target |-> target, meta |-> meta, msg |-> Undefined, swap |-> FALSE,
   closure |-> 0, node |-> 0, dflt |-> Undefined, flags |-> "", bounds |-> <<>>]

\* the Mirror whose constructor call made the closures / the metadata node of h[i]
ClosureOf(h, i) == IF h[i].closure = 0 THEN i ELSE h[i].closure
NodeOf(h, i) == IF h[i].node = 0 THEN i ELSE h[i].node

\* get isLossy(): this.meta.lossy === true
isLossy(m) == m.meta.lossy = "true"
\* m.meta.lossy read as a condition
LossyTruthy(m) == m.meta.lossy = "true"
BoolFlag(b) == IF b THEN "true" ELSE "false"

\* mirror(forward, backward): metadata defaults to { type: 'custom' }
mirror(fn) == NewMirror("fixture", fn, <<>>, <<>>, 0, 0, Meta("custom", "absent", <<>>))
\* lossy(forward, backward): { type: 'custom', ...meta, lossy: true }
lossy(fn) == NewMirror("fixture", fn, <<>>, <<>>, 0, 0, Meta("custom", "true", <<>>))
identity == NewMirror("identity", "", <<>>, <<>>, 0, 0, Meta("identity", "absent", <<>>))

FixtureMirror(p) == IF p = "small" THEN lossy(p) ELSE mirror(p)

\* a pipe that leaves the lossy field out of its metadata
PipeMirrorNoFlag(h, ms) ==
  NewMirror("pipe", "", ms, <<>>, 0, 0, Meta("pipe", "absent", ms))

\* pipe(...mirrors) with two or more stages
PipeMirror(h, ms) ==
  NewMirror("pipe", "", ms, <<>>, 0, 0,
            Meta("pipe", BoolFlag(\E k \in 1..Len(ms) : LossyTruthy(h[ms[k]])), ms))

\* this.pipe(other)
MethodPipeMirror(h, this, other) ==
  NewMirror("mpipe", "", <<this, other>>, <<>>, 0, 0,
            Meta("pipe", BoolFlag(isLossy(h[this]) \/ isLossy(h[other])), <<this, other>>))

\* all(mirrors): keys = Object.keys(mirrors); the closures keep the table itself
AllMirror(h, tb, t) ==
  LET ks == tb[t].ks
  IN NewMirror("all", "", <<>>, ks, t, 0,
               Meta("all", BoolFlag(\E k \in 1..Len(ks) : LossyTruthy(h[tb[t].f[ks[k]]])),
                    [k \in 1..Len(ks) |-> tb[t].f[ks[k]]]))

\* oneOf(...mirrors) with at least one mirror
OneOfMirror(h, ms) ==
  NewMirror("oneOf", "", ms, <<>>, 0, 0, Meta("oneOf", "absent", ms))

\* branch(predicate, thenMirror, elseMirror)
BranchMirror(h, p, thenM, elseM) ==
  NewMirror("branch", p, <<thenM, elseM>>, <<>>, 0, 0,
            Meta("oneOf", "absent", <<thenM, elseM>>))

\* filter(predicate, message)
FilterMirror(p, message) ==
  [NewMirror("filter", p, <<>>, <<>>, 0, 0, Meta("custom", "absent", <<>>))
     EXCEPT !.msg = message]

\* lazy(getMirror): getMirror is () => X for the variable X that names heap slot target
LazyMirror(target) == NewMirror("lazy", "", <<>>, <<>>, 0, target, Meta("custom", "absent", <<>>))

\* array(itemMirror), nullable(inner), object(schema)
ArrayMirror(i) == NewMirror("array", "", <<i>>, <<>>, 0, 0, Meta("array", "absent", <<i>>))
NullableMirror(i) == NewMirror("nullable", "", <<i>>, <<>>, 0, 0, Meta("nullable", "absent", <<i>>))
\* this.map(f, g, meta): the functions are those of the fixture fn; override is
\* "none" when no meta is handed in and else the kind the handed node names
MapMirror(h, i, fn, override) ==
  IF override = "none"
  THEN [NewMirror("map", fn, <<i>>, <<>>, 0, 0, h[i].meta) EXCEPT !.node = NodeOf(h, i)]
  ELSE NewMirror("map", fn, <<i>>, <<>>, 0, 0, [h[i].meta EXCEPT !.type = override])

\* mirror(forward, backward, meta) with a node { type, min, max } or
\* { type: 'array', items, minItems, maxItems }; bounds holds the bounds the node
\* declares (none, the lower one, or both)
MetaMirror(fn, type, bounds, parts) ==
  [NewMirror("mirror", fn, <<>>, <<>>, 0, 0, Meta(type, "absent", parts))
     EXCEPT !.bounds = bounds]
\* range(min, max), length(min, max), isInteger
RangeMirror(min, max) ==
  [NewMirror("range", "", <<>>, <<>>, 0, 0, Meta("range", "absent", <<>>))
     EXCEPT !.bounds = <<min, max>>]
LengthMirror(min, max) ==
  [NewMirror("length", "", <<>>, <<>>, 0, 0, Meta("length", "absent", <<>>))
     EXCEPT !.bounds = <<min, max>>]
isInteger == NewMirror("isInteger", "", <<>>, <<>>, 0, 0, Meta("integer", "absent", <<>>))

\* pattern(regex): rx is the source of the regex, flags its flags
PatternMirror(rx, flags) ==
  [NewMirror("pattern", rx, <<>>, <<>>, 0, 0, Meta("pattern", "absent", <<>>))
     EXCEPT !.flags = flags]

\* prop(key) and prop(key, inner); inner is 0 when none is handed in
PropMirror(key, inner) ==
  NewMirror("prop", key, IF inner = 0 THEN <<>> ELSE <<inner>>, <<>>, 0, 0,
            Meta("prop", "absent", IF inner = 0 THEN <<>> ELSE <<inner>>))

\* optional(inner, defaultValue)
OptionalMirror(i, d) ==
  [NewMirror("optional", "", <<i>>, <<>>, 0, 0, Meta("optional", "absent", <<i>>))
     EXCEPT !.dflt = d]
ObjectMirror(tb, t) ==
  LET ks == tb[t].ks
  IN NewMirror("object", "", <<>>, ks, t, 0,
               Meta("object", "absent", [k \in 1..Len(ks) |-> tb[t].f[ks[k]]]))

\* an invert that makes a Mirror of the same two functions in the same places
InvertMirrorUnswapped(h, i) ==
  [h[i] EXCEPT !.closure = ClosureOf(h, i), !.node = NodeOf(h, i)]

\* this.invert(): new Mirror(this.backward, this.forward, this.meta)
InvertMirror(h, i) ==
  [h[i] EXCEPT !.swap = ~h[i].swap, !.closure = ClosureOf(h, i), !.node = NodeOf(h, i)]

\* a describe that builds its node of the kind and the description only
DescribeMirrorKindOnly(h, i, text) ==
  [h[i] EXCEPT !.meta = [Meta(h[i].meta.type, "absent", <<>>) EXCEPT !.description = Str(text)],
               !.closure = ClosureOf(h, i), !.node = 0]

\* this.describe(description):
\* new Mirror(this.forward, this.backward, { ...this.meta, description })
DescribeMirror(h, i, text) ==
  [h[i] EXCEPT !.meta.description = Str(text), !.closure = ClosureOf(h, i), !.node = 0]

\* ---- running the closures -----------------------------------------------------
\* A run yields its outcome, the ordered log of the calls it made (forward and
\* backward calls of Mirror objects, predicate calls, factory calls) and the
\* contents of the lazy cells after it.
Run(out, log, c) == [out |-> out, log |-> log, c |-> c]
Entry(op, i) == [op |-> op, m |-> i]

Reverse(s) == [k \in 1..Len(s) |-> s[Len(s) + 1 - k]]

\* a backward closure that walks the stages first to last
PipeOrderSame(ms, dir) == ms

\* the order in which pipe's closures walk `mirrors`
PipeOrder(ms, dir) == IF dir = "forward" THEN ms ELSE Reverse(ms)

\* a method pipe whose backward runs this.backward first
MethodPipeOrderSame(ms, dir) == <<ms[1], ms[2]>>

\* this.pipe(other): forward runs this then other, backward other then this
MethodPipeOrder(ms, dir) == IF dir = "forward" THEN <<ms[1], ms[2]>> ELSE <<ms[2], ms[1]>>

\* a oneOf that tries its mirrors last to first
OneOfOrderReversed(ms) == Reverse(ms)

\* oneOf(): for (const m of mirrors), in both closures
OneOfOrder(ms) == ms

\* a try method that hands on whatever was raised
AsErrorUnwrapped(e) == e

\* e instanceof Error ? e : new Error(String(e))
AsError(e) == IF IsErrorInstance(e) THEN e ELSE ErrorObj(ToStr(e))

\* the Result a try method builds from the outcome of the wrapped call
TryResult(out) ==
  IF out.kind = "return" THEN Return(ResultOk(out.val))
  ELSE Return(ResultFail(AsError(out.val)))

\* a oneOf that raises a generic error once every mirror has failed
ExhaustedGeneric(lastError) == Throw(ErrorObj("All mirrors failed"))

\* throw lastError ?? new Error('All mirrors failed')
Exhausted(lastError) ==
  IF lastError.t = "undefined" THEN Throw(ErrorObj("All mirrors failed"))
  ELSE Throw(lastError)

\* ---- regular expressions -------------------------------------------------------
\* the strings of the sessions, as the classes of their characters (l: a letter
\* a-z, d: a digit)
Chars(s) ==
  CASE s = "abc" -> <<"l", "l", "l">>
    [] s = "a1" -> <<"l", "d">>
    [] s = "1a" -> <<"d", "l">>
    [] s = "12" -> <<"d", "d">>
    [] s = "ab" -> <<"l", "l">>
    [] s = "a" -> <<"l">>
    [] s = "1" -> <<"d">>
    [] OTHER -> <<>>
\* s.slice(0, n) for the strings of the sessions
Slice(s, n) ==
  IF n >= Len(Chars(s)) THEN s
  ELSE IF n <= 0 THEN ""
  ELSE CASE s = "abc" -> IF n = 1 THEN "a" ELSE "ab"
         [] s \in {"a1", "ab"} -> "a"
         [] OTHER -> "1"
RegexSources == {"^[a-z]+$", "[a-z]"}
\* the regex rx matches cs with the match beginning at index k (from 0)
MatchAt(rx, cs, k) ==
  IF rx = "^[a-z]+$"
  THEN k = 0 /\ Len(cs) > 0 /\ \A j \in 1..Len(cs) : cs[j] = "l"
  ELSE k < Len(cs) /\ cs[k + 1] = "l"
\* the index after the match that begins at k
MatchEnd(rx, cs, k) == IF rx = "^[a-z]+$" THEN Len(cs) ELSE k + 1

\* regex.test(s): a regex with the g flag searches from lastIndex and moves it
\* behind the match, or back to 0 when there is none
RegExpTest(rx, flags, lastIndex, s) ==
  LET cs == Chars(s)
      start == IF flags = "g" THEN lastIndex ELSE 0
      at == {k \in start..Len(cs) : MatchAt(rx, cs, k)}
      first == CHOOSE k \in at : \A j \in at : k <= j
  IN [found |-> at # {},
      lastIndex |-> IF flags # "g" THEN lastIndex
                    ELSE IF at # {} THEN MatchEnd(rx, cs, first) ELSE 0]

\* the cell a lazy closure finds on a later call once the factory has returned
Memo(c, i, got) == [c EXCEPT ![i] = got]

RECURSIVE Apply(_, _, _, _, _, _)
RECURSIVE Thread(_, _, _, _, _, _)
RECURSIVE AllRun(_, _, _, _, _, _, _, _)
RECURSIVE OneOfRun(_, _, _, _, _, _, _)
RECURSIVE MapRun(_, _, _, _, _, _, _)
RECURSIVE ObjectForward(_, _, _, _, _, _, _)
RECURSIVE ObjectBackward(_, _, _, _, _, _, _)
RECURSIVE Spread(_, _, _)

\* a law checker that lets the raised value through
LawCaughtRethrown(e) == Throw(e)

\* catch { return false }
LawCaught(e) == Return(Bool(FALSE))

\* testSectionLaw (first = "backward") and testRetractionLaw (first = "forward"):
\* try { const y = this.first(x); const x2 = this.second(y); return deepEqual(x, x2) }
RoundTrip(S, c, i, first, x, fuel) ==
  LET r1 == Apply(S, c, i, first, x, fuel)
  IN IF r1.out.kind = "throw" THEN Run(LawCaught(r1.out.val), r1.log, r1.c)
     ELSE LET r2 == Apply(S, r1.c, i, IF first = "forward" THEN "backward" ELSE "forward",
                          r1.out.val, fuel)
          IN IF r2.out.kind = "throw" THEN Run(LawCaught(r2.out.val), r1.log \o r2.log, r2.c)
             ELSE Run(Return(Bool(deepEqual(x, r2.out.val))), r1.log \o r2.log, r2.c)

\* m.tryForward(x) / m.tryBackward(x)
TryApply(S, c, i, dir, x, fuel) ==
  LET r == Apply(S, c, i, dir, x, fuel)
  IN Run(TryResult(r.out), r.log, r.c)

\* result = m.forward(result) for the mirrors of ms in turn
Thread(S, c, ms, dir, x, fuel) ==
  IF ms = <<>> THEN Run(Return(x), <<>>, c)
  ELSE LET r == Apply(S, c, Head(ms), dir, x, fuel)
       IN IF r.out.kind = "throw" THEN r
          ELSE LET r2 == Thread(S, r.c, Tail(ms), dir, r.out.val, fuel)
               IN Run(r2.out, r.log \o r2.log, r2.c)

\* an all that returns the fields it has built when a field raises
AllRunPartial(S, c, ks, t, dir, x, acc, fuel) ==
  IF ks = <<>> THEN Run(Return(acc), <<>>, c)
  ELSE LET key == Head(ks)
           arg == GetProp(x, key)
       IN IF arg.kind = "throw" THEN Run(arg, <<>>, c)
          ELSE LET r == Apply(S, c, S.tables[t].f[key], dir, arg.val, fuel)
               IN IF r.out.kind = "throw" THEN Run(Return(acc), r.log, r.c)
                  ELSE LET r2 == AllRun(S, r.c, Tail(ks), t, dir, x,
                                        SetProp(acc, key, r.out.val), fuel)
                       IN Run(r2.out, r.log \o r2.log, r2.c)

\* all(): for (const key of keys) result[key] = mirrors[key].forward(a[key])
AllRun(S, c, ks, t, dir, x, acc, fuel) ==
  IF ks = <<>> THEN Run(Return(acc), <<>>, c)
  ELSE LET key == Head(ks)
           arg == GetProp(x, key)
       IN IF key \notin DOMAIN S.tables[t].f
          THEN Run(Throw(ErrorObj("TypeError: cannot read properties")), <<>>, c)
          ELSE IF arg.kind = "throw" THEN Run(arg, <<>>, c)
          ELSE LET r == Apply(S, c, S.tables[t].f[key], dir, arg.val, fuel)
               IN IF r.out.kind = "throw" THEN r
                  ELSE LET r2 == AllRun(S, r.c, Tail(ks), t, dir, x,
                                        SetProp(acc, key, r.out.val), fuel)
                       IN Run(r2.out, r.log \o r2.log, r2.c)

\* oneOf(): for (const m of mirrors) { result = m.tryForward(a); ... }
OneOfRun(S, c, ms, dir, x, lastError, fuel) ==
  IF ms = <<>> THEN Run(Exhausted(lastError), <<>>, c)
  ELSE LET r == TryApply(S, c, Head(ms), dir, x, fuel)
       IN IF r.out.val.ok THEN Run(Return(r.out.val.value), r.log, r.c)
          ELSE LET r2 == OneOfRun(S, r.c, Tail(ms), dir, x, r.out.val.error, fuel)
               IN Run(r2.out, r.log \o r2.log, r2.c)

\* array(): arr.map((item) => itemMirror.forward(item))
MapRun(S, c, i, dir, items, acc, fuel) ==
  IF items = <<>> THEN Run(Return(Arr(acc)), <<>>, c)
  ELSE LET r == Apply(S, c, i, dir, Head(items), fuel)
       IN IF r.out.kind = "throw" THEN r
          ELSE LET r2 == MapRun(S, r.c, i, dir, Tail(items), Append(acc, r.out.val), fuel)
               IN Run(r2.out, r.log \o r2.log, r2.c)

\* object(): for (const key of keys) result[key] = schema[key].forward(input)
ObjectForward(S, c, ks, t, x, acc, fuel) ==
  IF ks = <<>> THEN Run(Return(acc), <<>>, c)
  ELSE LET key == Head(ks)
       IN IF key \notin DOMAIN S.tables[t].f
          THEN Run(Throw(ErrorObj("TypeError: cannot read properties")), <<>>, c)
          ELSE LET r == Apply(S, c, S.tables[t].f[key], "forward", x, fuel)
               IN IF r.out.kind = "throw" THEN r
                  ELSE LET r2 == ObjectForward(S, r.c, Tail(ks), t, x,
                                               SetProp(acc, key, r.out.val), fuel)
                       IN Run(r2.out, r.log \o r2.log, r2.c)

\* { ...result, ...backValue }: the own keys of backValue, in order, onto result
Spread(acc, ks, get) ==
  IF ks = <<>> THEN acc
  ELSE Spread(SetProp(acc, Head(ks), get[Head(ks)]), Tail(ks), get)

SpreadValue(acc, v) ==
  IF v.t = "object" THEN Spread(acc, v.ks, v.f)
  ELSE IF v.t = "array"
       THEN Spread(acc, [k \in 1..Len(v.s) |-> NumStr(k - 1)],
                   [key \in {NumStr(k - 1) : k \in 1..Len(v.s)} |->
                      v.s[CHOOSE k \in 1..Len(v.s) : NumStr(k - 1) = key]])
       ELSE acc

\* object(): backward merges what the fields' backward calls give
ObjectBackward(S, c, ks, t, x, acc, fuel) ==
  IF ks = <<>> THEN Run(Return(acc), <<>>, c)
  ELSE LET key == Head(ks)
           arg == GetProp(x, key)
       IN IF key \notin DOMAIN S.tables[t].f
          THEN Run(Throw(ErrorObj("TypeError: cannot read properties")), <<>>, c)
          ELSE IF arg.kind = "throw" THEN Run(arg, <<>>, c)
          ELSE LET r == Apply(S, c, S.tables[t].f[key], "backward", arg.val, fuel)
                   back == r.out.val
                   acc2 == IF back.t \in {"object", "array", "Error", "Result", "mirror"}
                           THEN SpreadValue(acc, back)
                           ELSE IF back.t # "undefined" THEN SetProp(acc, key, back)
                           ELSE acc
               IN IF r.out.kind = "throw" THEN r
                  ELSE LET r2 == ObjectBackward(S, r.c, Tail(ks), t, x, acc2, fuel)
                       IN Run(r2.out, r.log \o r2.log, r2.c)

\* getMirror(): the variable a factory returns is readable once it is initialised
Factory(S, target) ==
  IF target \in 1..Len(S.heap) THEN Return(Ref(target))
  ELSE Throw(ErrorObj("ReferenceError: cannot access before initialization"))

\* a get() that calls the factory without looking at the cell
LazyGetAlways(S, c, i) ==
  LET made == Factory(S, S.heap[i].target)
  IN IF made.kind = "throw" THEN Run(made, <<Entry("factory", i)>>, c)
     ELSE Run(made, <<Entry("factory", i)>>, Memo(c, i, made.val.i))

\* lazy(): get() -- if (!cached) cached = getMirror(); return cached
LazyGet(S, c, i) ==
  IF c[i] # 0 THEN Run(Return(Ref(c[i])), <<>>, c)
  ELSE LET made == Factory(S, S.heap[i].target)
       IN IF made.kind = "throw" THEN Run(made, <<Entry("factory", i)>>, c)
          ELSE Run(made, <<Entry("factory", i)>>, Memo(c, i, made.val.i))

\* a filter that raises the default message whatever it was given
FilterMessageDefault(message) == "Value did not match filter predicate"

\* message ?? 'Value did not match filter predicate'
FilterMessage(message) ==
  IF message.t \in {"undefined", "null"} THEN "Value did not match filter predicate"
  ELSE message.s

Flip(dir) == IF dir = "forward" THEN "backward" ELSE "forward"

\* a branch whose forward tries thenMirror first and falls through to elseMirror
BranchForwardFirstMatch(S, c, i, x, fuel) ==
  LET m == S.heap[i]
      t == TryApply(S, c, m.kids[1], "forward", x, fuel)
  IN IF t.out.val.ok THEN Run(Return(t.out.val.value), t.log, t.c)
     ELSE LET r == Apply(S, t.c, m.kids[2], "forward", x, fuel)
          IN Run(r.out, t.log \o r.log, r.c)

\* branch(): (a) => predicate(a) ? thenMirror.forward(a) : elseMirror.forward(a)
BranchForward(S, c, i, x, fuel) ==
  LET m == S.heap[i]
      r == Apply(S, c, IF PredFn(m.fn, x) THEN m.kids[1] ELSE m.kids[2], "forward", x, fuel)
  IN Run(r.out, <<Entry("predicate", ClosureOf(S.heap, i))>> \o r.log, r.c)

\* a branch whose backward asks the predicate which side to call
BranchBackwardByPredicate(S, c, i, x, fuel) ==
  LET m == S.heap[i]
      r == Apply(S, c, IF PredFn(m.fn, x) THEN m.kids[1] ELSE m.kids[2], "backward", x, fuel)
  IN Run(r.out, <<Entry("predicate", ClosureOf(S.heap, i))>> \o r.log, r.c)

\* branch(): (b) => { const thenResult = thenMirror.tryBackward(b);
\*                    if (thenResult.ok) return thenResult.value;
\*                    return elseMirror.backward(b) }
BranchBackward(S, c, i, x, fuel) ==
  LET m == S.heap[i]
      t == TryApply(S, c, m.kids[1], "backward", x, fuel)
  IN IF t.out.val.ok THEN Run(Return(t.out.val.value), t.log, t.c)
     ELSE LET r == Apply(S, t.c, m.kids[2], "backward", x, fuel)
          IN Run(r.out, t.log \o r.log, r.c)

\* the body of the forward / backward closure that Mirror i holds; own is the
\* Mirror those closures were made for
Body(S, c, i, dir, x, fuel) ==
  LET m == S.heap[i]
      own == ClosureOf(S.heap, i)
  IN CASE m.type \in {"fixture", "mirror"} -> Run(FixtureFn(m.fn, dir, x), <<>>, c)
       [] m.type = "identity" -> Run(Return(x), <<>>, c)
       [] m.type = "pipe" -> Thread(S, c, PipeOrder(m.kids, dir), dir, x, fuel)
       [] m.type = "mpipe" ->
            Thread(S, c, MethodPipeOrder(m.kids, dir), dir, x, fuel)
       [] m.type = "all" -> AllRun(S, c, m.keys, m.tab, dir, x, EmptyObj, fuel)
       [] m.type = "oneOf" -> OneOfRun(S, c, OneOfOrder(m.kids), dir, x, Undefined, fuel)
       [] m.type = "lazy" ->
            LET g == LazyGet(S, c, own)
            IN IF g.out.kind = "throw" THEN g
               ELSE LET r == Apply(S, g.c, g.out.val.i, dir, x, fuel)
                    IN Run(r.out, g.log \o r.log, r.c)
       [] m.type = "branch" ->
            IF dir = "forward" THEN BranchForward(S, c, i, x, fuel)
            ELSE BranchBackward(S, c, i, x, fuel)
       [] m.type = "filter" ->
            IF dir = "forward"
            THEN Run(IF PredFn(m.fn, x) THEN Return(x) ELSE Throw(ErrorObj(FilterMessage(m.msg))),
                     <<Entry("predicate", own)>>, c)
            ELSE Run(Return(x), <<>>, c)
       [] m.type = "nullable" ->
            IF x.t = "null" THEN Run(Return(Null), <<>>, c)
            ELSE Apply(S, c, m.kids[1], dir, x, fuel)
       [] m.type = "array" ->
            IF x.t = "array" THEN MapRun(S, c, m.kids[1], dir, x.s, <<>>, fuel)
            ELSE Run(Throw(ErrorObj("TypeError: arr.map is not a function")), <<>>, c)
       [] m.type = "range" ->
            IF ~IsNum(x) THEN Run(Return(x), <<>>, c)
            ELSE IF dir = "forward"
            THEN Run(IF x.n < m.bounds[1] \/ x.n > m.bounds[2]
                     THEN Throw(ErrorObj("Value is out of range")) ELSE Return(x), <<>>, c)
            ELSE Run(Return(Num(IF x.n < m.bounds[1] THEN m.bounds[1]
                                ELSE IF x.n > m.bounds[2] THEN m.bounds[2] ELSE x.n)), <<>>, c)
       [] m.type = "length" ->
            IF x.t # "string"
            THEN Run(Throw(ErrorObj("TypeError: s.slice is not a function")), <<>>, c)
            ELSE IF dir = "forward"
            THEN Run(IF Len(Chars(x.s)) < m.bounds[1] \/ Len(Chars(x.s)) > m.bounds[2]
                     THEN Throw(ErrorObj("String length is out of range")) ELSE Return(x),
                     <<>>, c)
            ELSE Run(Return(Str(Slice(x.s, m.bounds[2]))), <<>>, c)
       [] m.type = "isInteger" ->
            IF dir = "forward"
            THEN Run(IF IsNum(x) THEN Return(x) ELSE Throw(ErrorObj("Value must be an integer")),
                     <<>>, c)
            ELSE Run(Return(x), <<>>, c)
       [] m.type = "pattern" ->
            IF dir = "forward"
            THEN LET t == RegExpTest(m.fn, m.flags, c[own], ToStr(x))
                 IN Run(IF t.found THEN Return(x)
                        ELSE Throw(ErrorObj("String does not match pattern")),
                        <<>>, [c EXCEPT ![own] = t.lastIndex])
            ELSE Run(Return(x), <<>>, c)
       [] m.type = "prop" ->
            IF dir = "forward"
            THEN LET got == GetProp(x, m.fn)
                 IN IF got.kind = "throw" \/ m.kids = <<>> THEN Run(got, <<>>, c)
                    ELSE Apply(S, c, m.kids[1], "forward", got.val, fuel)
            ELSE IF m.kids = <<>> THEN Run(Return(SetProp(EmptyObj, m.fn, x)), <<>>, c)
                 ELSE LET r == Apply(S, c, m.kids[1], "backward", x, fuel)
                      IN IF r.out.kind = "throw" THEN r
                         ELSE Run(Return(SetProp(EmptyObj, m.fn, r.out.val)), r.log, r.c)
       [] m.type = "map" ->
            IF dir = "forward"
            THEN LET r == Apply(S, c, m.kids[1], "forward", x, fuel)
                 IN IF r.out.kind = "throw" THEN r
                    ELSE Run(FixtureFn(m.fn, "forward", r.out.val), r.log, r.c)
            ELSE LET y == FixtureFn(m.fn, "backward", x)
                 IN IF y.kind = "throw" THEN Run(y, <<>>, c)
                    ELSE Apply(S, c, m.kids[1], "backward", y.val, fuel)
       [] m.type = "optional" ->
            IF dir = "forward"
            THEN IF x.t = "undefined" THEN Run(Return(m.dflt), <<>>, c)
                 ELSE Apply(S, c, m.kids[1], dir, x, fuel)
            ELSE IF deepEqualDefault(x, m.dflt) THEN Run(Return(Undefined), <<>>, c)
                 ELSE Apply(S, c, m.kids[1], dir, x, fuel)
       [] OTHER ->
            IF dir = "forward" THEN ObjectForward(S, c, m.keys, m.tab, x, EmptyObj, fuel)
            ELSE ObjectBackward(S, c, m.keys, m.tab, x, EmptyObj, fuel)

\* heap[i].forward(x) or heap[i].backward(x); a call nested deeper than the
\* engine's stack raises RangeError
Apply(S, c, i, dir, x, fuel) ==
  IF fuel = 0
  THEN Run(Throw(ErrorObj("RangeError: Maximum call stack size exceeded")), <<>>, c)
  ELSE LET r == Body(S, c, i, IF S.heap[i].swap THEN Flip(dir) ELSE dir, x, fuel - 1)
       IN Run(r.out, <<Entry(dir, i)>> \o r.log, r.c)

\* ---- the session ---------------------------------------------------------------
Cap == Len(Fixtures) + MaxMirrors
Keys == {"a", "b"}

\* the sequences of at most n elements of S
RECURSIVE SeqsUpTo(_, _)
SeqsUpTo(S, n) ==
  IF n = 0 THEN {<<>>}
  ELSE LET shorter == SeqsUpTo(S, n - 1)
       IN shorter \cup {Append(s, x) : s \in {q \in shorter : Len(q) = n - 1}, x \in S}

\* the key orders of an object literal over Keys
KeyOrders == {ks \in SeqsUpTo(Keys, Cardinality(Keys)) :
                \A j, k \in 1..Len(ks) : j # k => ks[j] # ks[k]}
Range(s) == {s[k] : k \in 1..Len(s)}

Store == [heap |-> heap, tables |-> tables]
Slots == 1..Len(heap)

NoCall == [op |-> "none", fn |-> "", m |-> 0, args |-> <<>>, arg |-> Undefined,
           out |-> Return(Undefined), log |-> <<>>]
\* what a constructor call left behind
Built(fn, args, out) ==
  [op |-> "construct", fn |-> fn, m |-> 0, args |-> args, arg |-> Undefined,
   out |-> out, log |-> <<>>]
\* what a forward / backward / tryForward / tryBackward call left behind
Called(op, i, x, r) ==
  [op |-> op, fn |-> "", m |-> i, args |-> <<>>, arg |-> x, out |-> r.out, log |-> r.log]

\* a session starts with the Mirror objects made from the fixtures fx
InitWith(fx) ==
  /\ heap = [k \in 1..Len(fx) |-> FixtureMirror(fx[k])]
  /\ tables = <<>>
  /\ cached = [i \in 1..Cap |-> 0]
  /\ factoryCalls = [i \in 1..Cap |-> 0]
  /\ res = NoCall
  /\ mem = <<>>

Init == InitWith(Fixtures)

\* the Mirror objects the session itself constructed
Constructed == {i \in Slots : heap[i].type # "fixture" \/ heap[i].closure # 0}

\* a constructor returned the new Mirror object mk
Construct(fn, args, mk) ==
  /\ Cardinality(Constructed) < MaxMirrors
  /\ heap' = Append(heap, mk)
  /\ res' = Built(fn, args, Return(Ref(Len(heap) + 1)))
  /\ UNCHANGED <<cached, factoryCalls, mem>>

\* pipe(...mirrors)
CallPipe(ms) ==
  /\ IF Len(ms) = 0 THEN Construct("pipe", ms, identity)
     ELSE IF Len(ms) = 1
          THEN /\ res' = Built("pipe", ms, Return(Ref(ms[1])))
               /\ UNCHANGED <<heap, cached, factoryCalls, mem>>
          ELSE Construct("pipe", ms, PipeMirror(heap, ms))
  /\ UNCHANGED tables

\* this.pipe(other)
CallMethodPipe(this, other) ==
  /\ Construct("Mirror.pipe", <<this, other>>, MethodPipeMirror(heap, this, other))
  /\ UNCHANGED tables

\* identity()
CallIdentity ==
  /\ Construct("identity", <<>>, identity)
  /\ UNCHANGED tables

\* all({k1: t1, ...}): the object literal is a new table
CallAll(ks, f) ==
  LET tb == Append(tables, [ks |-> ks, f |-> f])
  IN /\ tables' = tb
     /\ Construct("all", [k \in 1..Len(ks) |-> f[ks[k]]], AllMirror(heap, tb, Len(tb)))

\* a oneOf that accepts an empty list and leaves the failure to the first call
CallOneOfDeferred(ms) ==
  /\ Construct("oneOf", ms, OneOfMirror(heap, ms))
  /\ UNCHANGED tables

\* oneOf(...mirrors)
CallOneOf(ms) ==
  /\ IF Len(ms) = 0
     THEN /\ res' = Built("oneOf", ms, Throw(ErrorObj("oneOf requires at least one mirror")))
          /\ UNCHANGED <<heap, cached, factoryCalls, mem>>
     ELSE Construct("oneOf", ms, OneOfMirror(heap, ms))
  /\ UNCHANGED tables

\* fallback(primary, fallbackMirror): return oneOf(primary, fallbackMirror)
CallFallback(primary, fallbackMirror) ==
  /\ Construct("fallback", <<primary, fallbackMirror>>,
               OneOfMirror(heap, <<primary, fallbackMirror>>))
  /\ UNCHANGED tables

\* branch(predicate, thenMirror, elseMirror)
CallBranch(p, thenM, elseM) ==
  /\ Construct("branch", <<thenM, elseM>>, BranchMirror(heap, p, thenM, elseM))
  /\ UNCHANGED tables

\* filter(predicate, message)
CallFilter(p, message) ==
  /\ Construct("filter", <<>>, FilterMirror(p, message))
  /\ UNCHANGED tables

\* heap[i].invert()
CallInvert(i) ==
  /\ Construct("invert", <<i>>, InvertMirror(heap, i))
  /\ UNCHANGED tables

\* heap[i].describe(text)
CallDescribe(i, text) ==
  /\ Construct("describe", <<i>>, DescribeMirror(heap, i, text))
  /\ UNCHANGED tables

\* a lazy that calls the factory while it is being constructed
CallLazyEager(target) ==
  /\ Cardinality(Constructed) < MaxMirrors
  /\ heap' = Append(heap, LazyMirror(target))
  /\ res' = Built("lazy", <<>>, Return(Ref(Len(heap) + 1)))
  /\ factoryCalls' = [factoryCalls EXCEPT ![Len(heap) + 1] = 1]
  /\ cached' = IF target \in Slots THEN [cached EXCEPT ![Len(heap) + 1] = target] ELSE cached
  /\ UNCHANGED <<tables, mem>>

\* lazy(() => X)
CallLazy(target) ==
  /\ Construct("lazy", <<>>, LazyMirror(target))
  /\ UNCHANGED tables

\* array(itemMirror), nullable(inner)
CallArray(i) ==
  /\ Construct("array", <<i>>, ArrayMirror(i))
  /\ UNCHANGED tables

CallNullable(i) ==
  /\ Construct("nullable", <<i>>, NullableMirror(i))
  /\ UNCHANGED tables

\* object({k1: t1, ...})
CallObject(ks, f) ==
  LET tb == Append(tables, [ks |-> ks, f |-> f])
  IN /\ tables' = tb
     /\ Construct("object", [k \in 1..Len(ks) |-> f[ks[k]]], ObjectMirror(tb, Len(tb)))

\* how often Mirror i's factory appears in a log
FactoryCount(log, i) == Cardinality({k \in 1..Len(log) : log[k] = Entry("factory", i)})

\* the state a finished call leaves: the lazy cells it filled, the counts, res
Finish(op, i, x, r) ==
  /\ \A l \in 1..Cap : factoryCalls[l] + FactoryCount(r.log, l) <= MaxFactoryCalls
  /\ cached' = r.c
  /\ factoryCalls' = [l \in 1..Cap |-> factoryCalls[l] + FactoryCount(r.log, l)]
  /\ res' = Called(op, i, x, r)
  /\ UNCHANGED <<heap, tables, mem>>

\* heap[i].forward(x), heap[i].backward(x)
Forward(i, x) == Finish("forward", i, x, Apply(Store, cached, i, "forward", x, MaxStack))
Backward(i, x) == Finish("backward", i, x, Apply(Store, cached, i, "backward", x, MaxStack))

\* heap[i].tryForward(x), heap[i].tryBackward(x)
TryForward(i, x) ==
  Finish("tryForward", i, x, TryApply(Store, cached, i, "forward", x, MaxStack))
TryBackward(i, x) ==
  Finish("tryBackward", i, x, TryApply(Store, cached, i, "backward", x, MaxStack))

\* heap[i].testSectionLaw(x), heap[i].testRetractionLaw(x)
TestLaw(i, x, first) ==
  Finish(IF first = "backward" THEN "testSectionLaw" ELSE "testRetractionLaw", i, x,
         RoundTrip(Store, cached, i, first, x, MaxStack))
TestSectionLaw(i, x) == TestLaw(i, x, "backward")
TestRetractionLaw(i, x) == TestLaw(i, x, "forward")

\* the all that was constructed from table t, and the table as all() recorded it:
\* the keys it captured and the Mirrors its metadata names
BuiltFrom(t) == {i \in Slots : heap[i].type = "all" /\ heap[i].tab = t}
Snapshot(i) ==
  [ks |-> heap[i].keys,
   f |-> [key \in Range(heap[i].keys) |->
            heap[i].meta.parts[CHOOSE k \in 1..Len(heap[i].keys) : heap[i].keys[k] = key]]]

\* the caller's table object after table[key] = heap[i] and after delete table[key]
Assigned(tb, key, i) ==
  [ks |-> IF key \in DOMAIN tb.f THEN tb.ks ELSE Append(tb.ks, key),
   f |-> [k \in DOMAIN tb.f \cup {key} |-> IF k = key THEN i ELSE tb.f[k]]]
Deleted(tb, key) ==
  [ks |-> SelectSeq(tb.ks, LAMBDA k : k # key),
   f |-> [k \in DOMAIN tb.f \ {key} |-> tb.f[k]]]

\* table[key] = heap[i] on the object that was handed to all() or object()
AssignEntry(t, key, i) ==
  /\ tables[t] # Assigned(tables[t], key, i)
  /\ tables' = [tables EXCEPT ![t] = Assigned(tables[t], key, i)]
  /\ UNCHANGED <<heap, cached, factoryCalls, res, mem>>

\* delete table[key]
DeleteEntry(t, key) ==
  /\ key \in DOMAIN tables[t].f
  /\ tables' = [tables EXCEPT ![t] = Deleted(tables[t], key)]
  /\ UNCHANGED <<heap, cached, factoryCalls, res, mem>>

\* mirror(f, g, { type, ...bounds, items })
CallMirror(fn, type, bounds, parts) ==
  /\ Construct("mirror", parts, MetaMirror(fn, type, bounds, parts))
  /\ UNCHANGED tables

\* range(min, max), length(min, max)
CallRange(min, max) ==
  /\ Construct("range", <<>>, RangeMirror(min, max))
  /\ UNCHANGED tables
CallLength(min, max) ==
  /\ Construct("length", <<>>, LengthMirror(min, max))
  /\ UNCHANGED tables

\* pattern(regex)
CallPattern(rx, flags) ==
  /\ Construct("pattern", <<>>, PatternMirror(rx, flags))
  /\ UNCHANGED tables

\* prop(key), prop(key, heap[inner])
CallProp(key, inner) ==
  /\ Construct("prop", IF inner = 0 THEN <<>> ELSE <<inner>>, PropMirror(key, inner))
  /\ UNCHANGED tables

\* set(lens, source, value): the partial object of lens.backward(value) spread
\* over a copy of source
SetRun(S, c, i, source, value, fuel) ==
  LET r == Apply(S, c, i, "backward", value, fuel)
  IN IF r.out.kind = "throw" THEN r
     ELSE IF TypeofObject(r.out.val) /\ r.out.val.t # "null"
          THEN Run(Return(SpreadValue(SpreadValue(EmptyObj, source), r.out.val)), r.log, r.c)
          ELSE r

\* set(heap[i], source, value); the call's arguments are kept as [source, value]
CallSet(i, source, value) ==
  Finish("set", i, Arr(<<source, value>>), SetRun(Store, cached, i, source, value, MaxStack))

\* heap[i].map(f, g, meta)
CallMap(i, fn, override) ==
  /\ Construct("map", <<i>>, MapMirror(heap, i, fn, override))
  /\ UNCHANGED tables

\* optional(inner, defaultValue)
CallOptional(i, d) ==
  /\ Construct("optional", <<i>>, OptionalMirror(i, d))
  /\ UNCHANGED tables

\* ---- schema export -----------------------------------------------------------
\* const base = {}; if (meta.description) base.description = meta.description
SchemaBase(m) ==
  IF m.description.t = "string" /\ m.description.s # ""
  THEN SetProp(EmptyObj, "description", m.description)
  ELSE EmptyObj

\* a rule that requires every field
IsRequiredAlways(type) == TRUE

\* fieldMeta.type !== 'optional' && fieldMeta.type !== 'nullable'
IsRequired(type) == type # "optional" /\ type # "nullable"

\* the names pushed on `required`, in the order of the shape's keys
RECURSIVE RequiredNames(_, _, _)
RequiredNames(h, ks, parts) ==
  IF ks = <<>> THEN <<>>
  ELSE (IF IsRequired(h[Head(parts)].meta.type) THEN <<Str(Head(ks))>> ELSE <<>>)
       \o RequiredNames(h, Tail(ks), Tail(parts))

\* metaToJsonSchema(meta) for the metadata node of heap[i]
RECURSIVE metaToJsonSchema(_, _)
\* properties[key] = metaToJsonSchema(fieldMeta), in the order of the shape's keys
RECURSIVE SchemaProperties(_, _, _, _)
SchemaProperties(h, ks, parts, acc) ==
  IF ks = <<>> THEN acc
  ELSE SchemaProperties(h, Tail(ks), Tail(parts),
                        SetProp(acc, Head(ks), metaToJsonSchema(h, Head(parts))))

metaToJsonSchema(h, i) ==
  LET m == h[i].meta
      base == SchemaBase(m)
  IN CASE m.type = "pipe" ->
            IF m.parts = <<>> THEN base
            ELSE SpreadValue(base, metaToJsonSchema(h, m.parts[Len(m.parts)]))
       [] m.type \in {"object", "all"} ->
            LET required == RequiredNames(h, h[i].keys, m.parts)
            IN SetProp(SetProp(SetProp(base, "type", Str("object")),
                               "properties",
                               SchemaProperties(h, h[i].keys, m.parts, EmptyObj)),
                       "required",
                       IF Len(required) > 0 THEN Arr(required) ELSE Undefined)
       [] m.type = "array" ->
            SetProp(SetProp(SetProp(SetProp(base, "type", Str("array")),
                                    "items", metaToJsonSchema(h, m.parts[1])),
                            "minItems",
                            IF Len(h[i].bounds) >= 1 THEN Num(h[i].bounds[1]) ELSE Undefined),
                    "maxItems",
                    IF Len(h[i].bounds) >= 2 THEN Num(h[i].bounds[2]) ELSE Undefined)
       [] m.type = "nullable" ->
            SetProp(SpreadValue(base, metaToJsonSchema(h, m.parts[1])), "nullable", Bool(TRUE))
       [] m.type = "optional" ->
            SetProp(SpreadValue(base, metaToJsonSchema(h, m.parts[1])), "default", h[i].dflt)
       [] m.type \in {"range", "integer"} ->
            SetProp(SetProp(SetProp(base, "type",
                                    Str(IF m.type = "range" THEN "number" ELSE "integer")),
                            "minimum",
                            IF Len(h[i].bounds) >= 1 THEN Num(h[i].bounds[1]) ELSE Undefined),
                    "maximum",
                    IF Len(h[i].bounds) >= 2 THEN Num(h[i].bounds[2]) ELSE Undefined)
       [] m.type = "length" ->
            SetProp(SetProp(SetProp(base, "type", Str("string")),
                            "minLength", Num(h[i].bounds[1])),
                    "maxLength", Num(h[i].bounds[2]))
       [] m.type = "pattern" ->
            SetProp(SetProp(base, "type", Str("string")), "pattern", Str(h[i].fn))
       [] m.type = "prop" ->
            IF m.parts # <<>> THEN metaToJsonSchema(h, m.parts[1]) ELSE base
       [] m.type = "oneOf" ->
            SetProp(base, "oneOf",
                    Arr([k \in 1..Len(m.parts) |-> metaToJsonSchema(h, m.parts[k])]))
       [] OTHER -> base

\* ---- sample generation ---------------------------------------------------------
\* Math.random() gives Draw / RandomDen; a stream holds the values of the calls of
\* one traversal, read again from its beginning when the traversal makes more
RandomDen == 10
Draws == {0, 5, 9}
MaxDraws == 2
Streams == [1..MaxDraws -> Draws]
Random(rs, pos) == rs[((pos - 1) % MaxDraws) + 1]

\* a number that need not be whole, in tenths, and a string of len letters a-z
Float(tenths) == [t |-> "number", tenths |-> tenths]
RandStr(len) == [t |-> "string", len |-> IF len > 0 THEN len ELSE 0]

\* randomInt(min, max): Math.floor(Math.random() * (max - min + 1)) + min
randomInt(r, min, max) == ((r * (max - min + 1)) \div RandomDen) + min
\* randomFloat(min, max): Math.random() * (max - min) + min
randomFloat(r, min, max) == Float(r * (max - min) + RandomDen * min)

\* Math.min(lengthMeta.max, 100)
LengthMax(max) == IF max < 100 THEN max ELSE 100

\* a default case that raises
SampleDefaultRaises == Throw(ErrorObj("unknown metadata kind"))
\* default: return null (also case 'custom' and case 'identity')
SampleDefault == Return(Null)

\* what a traversal gives and how many values of the stream it has read
Sampled(out, pos) == [out |-> out, pos |-> pos]

RECURSIVE sampleFromMeta(_, _, _, _)
\* result[key] = sampleFromMeta(fieldMeta), in the order of the shape's keys
RECURSIVE SampleFields(_, _, _, _, _, _)
SampleFields(h, ks, parts, rs, pos, acc) ==
  IF ks = <<>> THEN Sampled(Return(acc), pos)
  ELSE LET r == sampleFromMeta(h, Head(parts), rs, pos)
       IN IF r.out.kind = "throw" THEN r
          ELSE SampleFields(h, Tail(ks), Tail(parts), rs, r.pos,
                            SetProp(acc, Head(ks), r.out.val))
\* for (let i = 0; i < length; i++) items.push(sampleFromMeta(arrayMeta.items))
RECURSIVE SampleItems(_, _, _, _, _, _)
SampleItems(h, item, n, rs, pos, acc) ==
  IF n <= 0 THEN Sampled(Return(Arr(acc)), pos)
  ELSE LET r == sampleFromMeta(h, item, rs, pos)
       IN IF r.out.kind = "throw" THEN r
          ELSE SampleItems(h, item, n - 1, rs, r.pos, Append(acc, r.out.val))

\* sampleFromMeta(meta) for the metadata node of heap[i], with the values rs of
\* Math.random() from position pos on
sampleFromMeta(h, i, rs, pos) ==
  LET m == h[i].meta
      b == h[i].bounds
      r == Random(rs, pos)
  IN CASE m.type = "integer" ->
            Sampled(Return(Num(randomInt(r, IF Len(b) >= 1 THEN b[1] ELSE 0,
                                         IF Len(b) >= 2 THEN b[2] ELSE 100))), pos + 1)
       [] m.type = "pipe" ->
            IF m.parts = <<>> THEN Sampled(Return(Null), pos)
            ELSE sampleFromMeta(h, m.parts[Len(m.parts)], rs, pos)
       [] m.type \in {"object", "all"} ->
            SampleFields(h, h[i].keys, m.parts, rs, pos, EmptyObj)
       [] m.type = "array" ->
            SampleItems(h, m.parts[1],
                        randomInt(r, IF Len(b) >= 1 THEN b[1] ELSE 1,
                                  IF Len(b) >= 2 THEN b[2] ELSE 3),
                        rs, pos + 1, <<>>)
       [] m.type = "prop" ->
            IF m.parts # <<>> THEN sampleFromMeta(h, m.parts[1], rs, pos)
            ELSE Sampled(Return(RandStr(8)), pos + 8)
       [] m.type = "range" -> Sampled(Return(randomFloat(r, b[1], b[2])), pos + 1)
       [] m.type = "length" ->
            LET len == randomInt(r, b[1], LengthMax(b[2]))
            IN Sampled(Return(RandStr(len)), pos + 1 + (IF len > 0 THEN len ELSE 0))
       [] m.type = "pattern" -> Sampled(Return(RandStr(10)), pos + 10)
       [] m.type = "nullable" ->
            IF r * 10 > 8 * RandomDen THEN Sampled(Return(Null), pos + 1)
            ELSE sampleFromMeta(h, m.parts[1], rs, pos + 1)
       [] m.type = "optional" ->
            IF r * 10 > 8 * RandomDen THEN Sampled(Return(h[i].dflt), pos + 1)
            ELSE sampleFromMeta(h, m.parts[1], rs, pos + 1)
       [] m.type = "oneOf" ->
            IF Len(m.parts) = 0 THEN Sampled(Return(Null), pos)
            ELSE sampleFromMeta(h, m.parts[randomInt(r, 0, Len(m.parts) - 1) + 1], rs, pos + 1)
       [] OTHER -> Sampled(SampleDefault, pos)

\* heap[i].sample() with the values rs of Math.random(); the call record keeps rs
SampleCall(i, rs) ==
  Finish("sample", i, Arr([k \in 1..MaxDraws |-> Num(rs[k])]),
         Run(sampleFromMeta(heap, i, rs, 1).out, <<>>, cached))

\* heap[i].toJsonSchema()
ToJsonSchema(i) ==
  Finish("toJsonSchema", i, Undefined, Run(Return(metaToJsonSchema(heap, i)), <<>>, cached))

\* ---- specifications -------------------------------------------------------------
\* arguments of the calls of a session
NumArgs == Nums
ObjArgs == {Obj(<<"a", "b">>, [k \in Keys |-> IF k = "a" THEN Num(0) ELSE Num(1)]),
            Obj(<<"a">>, [k \in {"a"} |-> Num(MaxVal)])}
ArrArgs == {Null, Arr(<<>>), Arr(<<Num(0)>>), Arr(<<Arr(<<>>)>>)}

\* forward and backward calls on the Mirror objects ms
Calls(ms, args) ==
  \E i \in ms, x \in args :
    \/ Forward(i, x)
    \/ Backward(i, x)

TryCalls(ms, args) ==
  \E i \in ms, x \in args :
    \/ TryForward(i, x)
    \/ TryBackward(i, x)

LawCalls(ms, args) ==
  \E i \in ms, x \in args, first \in {"backward", "forward"} : TestLaw(i, x, first)

\* the message handed to filter and the text handed to describe
Messages == {Undefined, Str("rejected")}
Texts == {"d1", "d2"}

\* the whole library
Next ==
  \/ \E ms \in SeqsUpTo(Slots, MaxArity) : CallPipe(ms)
  \/ \E i, j \in Slots : CallMethodPipe(i, j)
  \/ CallIdentity
  \/ \E ks \in KeyOrders : \E f \in [Range(ks) -> Slots] : CallAll(ks, f)
  \/ \E ms \in SeqsUpTo(Slots, MaxArity) : CallOneOf(ms)
  \/ \E i, j \in Slots : CallFallback(i, j)
  \/ \E p \in Preds, i, j \in Slots : CallBranch(p, i, j)
  \/ \E p \in Preds, message \in Messages : CallFilter(p, message)
  \/ \E i \in Slots : CallInvert(i)
  \/ \E i \in Slots, text \in Texts : CallDescribe(i, text)
  \/ \E target \in 1..Cap : CallLazy(target)
  \/ \E i \in Slots : CallArray(i)
  \/ \E i \in Slots : CallNullable(i)
  \/ \E ks \in KeyOrders : \E f \in [Range(ks) -> Slots] : CallObject(ks, f)
  \/ Calls(Slots, NumArgs \cup ObjArgs \cup ArrArgs)
  \/ TryCalls(Slots, NumArgs \cup ObjArgs \cup ArrArgs)
  \/ LawCalls(Slots, NumArgs \cup ObjArgs \cup ArrArgs)

Spec == Init /\ [][Next]_vars

\* The sessions below build one transform bottom-up: a combinator call takes the
\* Mirror built last among its constituents.
Newest == Len(heap)
Wraps(ms) == Constructed = {} \/ Newest \in Range(ms)
\* Where no Mirror keeps a cell, a call leaves the heap as it found it and the
\* closures of a Mirror reach only Mirrors built before it: one call after each
\* constructor call, on the Mirror built last, reaches every way a call can end.
JustBuilt == res.op = "construct"

\* sessions that compose sequentially
PipeFixtures == <<"succ", "small">>
InitPipe == InitWith(PipeFixtures)
NextPipe ==
  \/ \E ms \in SeqsUpTo(Slots, MaxArity) : Wraps(ms) /\ CallPipe(ms)
  \/ \E i, j \in Slots : Wraps(<<i, j>>) /\ CallMethodPipe(i, j)
  \/ JustBuilt /\ Calls({Newest}, NumArgs)
SpecPipe == InitPipe /\ [][NextPipe]_vars

\* sessions that only construct sequential and field-wise compositions
InitLossy == InitWith(PipeFixtures)
NextLossy ==
  \/ \E ms \in SeqsUpTo(Slots, MaxArity) : Wraps(ms) /\ CallPipe(ms)
  \/ \E i, j \in Slots : Wraps(<<i, j>>) /\ CallMethodPipe(i, j)
  \/ \E ks \in KeyOrders : \E f \in [Range(ks) -> Slots] :
       Wraps([k \in 1..Len(ks) |-> f[ks[k]]]) /\ CallAll(ks, f)
SpecLossy == InitLossy /\ [][NextLossy]_vars

\* sessions that build alternatives
AltFixtures == <<"small", "zero">>
InitAlt == InitWith(AltFixtures)
NextAlt ==
  \/ \E ms \in SeqsUpTo(Slots, MaxArity) : Wraps(ms) /\ CallOneOf(ms)
  \/ \E i, j \in Slots : Wraps(<<i, j>>) /\ CallFallback(i, j)
  \/ JustBuilt /\ Calls({Newest}, NumArgs)
SpecAlt == InitAlt /\ [][NextAlt]_vars

\* sessions that build alternatives and choices and ask for Results
InitTry == InitWith(AltFixtures)
NextTry ==
  \/ \E i \in Slots : Wraps(<<i>>) /\ CallOneOf(<<i>>)
  \/ \E i, j \in Slots : Wraps(<<i, j>>) /\ CallFallback(i, j)
  \/ \E p \in Preds, i, j \in Slots : Wraps(<<i, j>>) /\ CallBranch(p, i, j)
  \/ JustBuilt /\ Calls({Newest}, NumArgs)
  \/ JustBuilt /\ TryCalls({Newest}, NumArgs)
SpecTry == InitTry /\ [][NextTry]_vars

\* sessions that choose by predicate and gate by predicate
InitBranch == InitWith(AltFixtures)
NextBranch ==
  \/ \E p \in Preds, i, j \in Slots : Wraps(<<i, j>>) /\ CallBranch(p, i, j)
  \/ \E p \in Preds, message \in Messages : CallFilter(p, message)
  \/ JustBuilt /\ Calls({Newest}, NumArgs)
SpecBranch == InitBranch /\ [][NextBranch]_vars

\* sessions that invert
InvertFixtures == <<"small", "half">>
InitInvert == InitWith(InvertFixtures)
NextInvert ==
  \/ \E i \in Slots : Wraps(<<i>>) /\ CallInvert(i)
  \/ \E i, j \in Slots : Wraps(<<i, j>>) /\ CallPipe(<<i, j>>)
  \/ JustBuilt /\ Calls({Newest}, NumArgs)
SpecInvert == InitInvert /\ [][NextInvert]_vars

\* sessions that describe
DescribeFixtures == <<"succ", "small">>
InitDescribe == InitWith(DescribeFixtures)
NextDescribe ==
  \/ \E i \in Slots, text \in Texts : Wraps(<<i>>) /\ CallDescribe(i, text)
  \/ \E i \in Slots : Wraps(<<i>>) /\ CallInvert(i)
  \/ \E i, j \in Slots : Wraps(<<i, j>>) /\ CallPipe(<<i, j>>)
  \/ JustBuilt /\ Calls({Newest}, NumArgs)
SpecDescribe == InitDescribe /\ [][NextDescribe]_vars

\* sessions that validate strings against a pattern, call after call
PatternFixtures == <<"succ">>
Flags == {"", "g"}
StrArgs == {Str("abc"), Str("a1"), Str("1a"), Str("12")}
InitPattern == InitWith(PatternFixtures)
NextPattern ==
  \/ \E rx \in RegexSources, flags \in Flags : CallPattern(rx, flags)
  \/ \E i \in Slots, text \in Texts : Wraps(<<i>>) /\ CallDescribe(i, text)
  \/ Calls(Constructed, StrArgs)
SpecPattern == InitPattern /\ [][NextPattern]_vars

\* sessions that traverse metadata: sample() and toJsonSchema()
SampleFixtures == <<"succ">>
RangeBounds == {<<0, 2>>, <<1, 1>>}
LengthBounds == {<<0, 2>>, <<2, 150>>, <<150, 200>>}
IntegerBounds == {<<>>, <<1, 3>>}
ItemBounds == {<<>>, <<1>>, <<0, 2>>, <<2, 2>>}
InitSample == InitWith(SampleFixtures)
NextSample ==
  \/ \E b \in RangeBounds : CallRange(b[1], b[2])
  \/ \E b \in LengthBounds : CallLength(b[1], b[2])
  \/ \E b \in IntegerBounds : CallMirror("succ", "integer", b, <<>>)
  \/ \E b \in ItemBounds, i \in Slots : Wraps(<<i>>) /\ CallMirror("succ", "array", b, <<i>>)
  \/ \E target \in 1..Cap : CallLazy(target)
  \/ \E i \in Slots : Wraps(<<i>>) /\ (CallNullable(i) \/ CallArray(i))
  \/ \E i, j \in Slots : Wraps(<<i, j>>) /\ (CallPipe(<<i, j>>) \/ CallOneOf(<<i, j>>))
  \/ \E ks \in {<<"a">>, <<"b", "a">>} : \E f \in [Range(ks) -> Slots] :
       Wraps([k \in 1..Len(ks) |-> f[ks[k]]]) /\ CallAll(ks, f)
  \/ JustBuilt /\ \E rs \in Streams : SampleCall(Newest, rs)
  \/ JustBuilt /\ ToJsonSchema(Newest)
SpecSample == InitSample /\ [][NextSample]_vars

\* ---- deepEqual (index.test.ts) ---------------------------------------------
\* The object graph mem: node k is the object behind the reference Ptr(k). A node is an
\* array, a Set or a plain object; elems are its elements (in insertion order for
\* a Set) or, for a plain object, the values of its keys.
Ptr(k) == [t |-> "ref", k |-> k]
Node(kind, keys, elems) == [kind |-> kind, keys |-> keys, elems |-> elems]
MaxDepth == 12       \* nested deepEqualInternal calls before RangeError

\* the result of a call and the pairs the WeakMap holds when it ends
Eq(b, seen) == [eq |-> b, thrown |-> FALSE, seen |-> seen]
Overflow(seen) == [eq |-> FALSE, thrown |-> TRUE, seen |-> seen]

hasSeenPairNever(seen, a, b) == FALSE
\* hasSeenPair: whether objB is already recorded for objA; it records the pair
\* if it is not (Remember)
hasSeenPair(seen, a, b) == <<a, b>> \in seen
Remember(seen, a, b) == seen \cup {<<a, b>>}

RemoveAt(s, i) == [k \in 1..(Len(s) - 1) |-> IF k < i THEN s[k] ELSE s[k + 1]]
IndexOf(s, x) == IF \E k \in 1..Len(s) : s[k] = x
                 THEN CHOOSE k \in 1..Len(s) : s[k] = x ELSE 0

RECURSIVE deepEqualInternal(_, _, _, _, _)
RECURSIVE PlaceLoop(_, _, _, _, _, _)
RECURSIVE KeyLoop(_, _, _, _, _, _)
RECURSIVE FirstMatch(_, _, _, _, _, _)
RECURSIVE SetLoop(_, _, _, _, _, _)

\* for (let i = 0; i < objA.length; i++) if (!deepEqualInternal(objA[i], objB[i], seen)) return false
PlaceLoop(g, as, bs, i, seen, fuel) ==
  IF i > Len(as) THEN Eq(TRUE, seen)
  ELSE LET r == deepEqualInternal(g, as[i], bs[i], seen, fuel)
       IN IF r.thrown \/ ~r.eq THEN r
          ELSE PlaceLoop(g, as, bs, i + 1, r.seen, fuel)

\* for (const key of keysA): hasOwnProperty.call(objB, key), then the values
KeyLoop(g, na, nb, i, seen, fuel) ==
  IF i > Len(na.keys) THEN Eq(TRUE, seen)
  ELSE LET j == IndexOf(nb.keys, na.keys[i])
       IN IF j = 0 THEN Eq(FALSE, seen)
          ELSE LET r == deepEqualInternal(g, na.elems[i], nb.elems[j], seen, fuel)
               IN IF r.thrown \/ ~r.eq THEN r
                  ELSE KeyLoop(g, na, nb, i + 1, r.seen, fuel)

\* for (let i = 0; i < remaining.length; i++) if (deepEqualInternal(valueA, remaining[i], seen))
\* the place of the first element that compares equal, 0 when there is none
FirstMatch(g, x, remaining, i, seen, fuel) ==
  IF i > Len(remaining) THEN [at |-> 0, thrown |-> FALSE, seen |-> seen]
  ELSE LET r == deepEqualInternal(g, x, remaining[i], seen, fuel)
       IN IF r.thrown THEN [at |-> 0, thrown |-> TRUE, seen |-> r.seen]
          ELSE IF r.eq THEN [at |-> i, thrown |-> FALSE, seen |-> r.seen]
          ELSE FirstMatch(g, x, remaining, i + 1, r.seen, fuel)

\* outer: for (const valueA of setA.values()) { ... remaining.splice(i, 1) ... }
SetLoop(g, as, k, remaining, seen, fuel) ==
  IF k > Len(as) THEN Eq(remaining = <<>>, seen)
  ELSE LET m == FirstMatch(g, as[k], remaining, 1, seen, fuel)
       IN IF m.thrown THEN Overflow(m.seen)
          ELSE IF m.at = 0 THEN Eq(FALSE, m.seen)
          ELSE SetLoop(g, as, k + 1, RemoveAt(remaining, m.at), m.seen, fuel)

deepEqualInternal(g, a, b, seen, fuel) ==
  IF fuel = 0 THEN Overflow(seen)
  ELSE IF a = b THEN Eq(TRUE, seen)
  ELSE IF a.t # "ref" \/ b.t # "ref" THEN Eq(FALSE, seen)
  ELSE IF hasSeenPair(seen, a.k, b.k) THEN Eq(TRUE, seen)
  ELSE LET na == g[a.k]
           nb == g[b.k]
           s1 == Remember(seen, a.k, b.k)
       IN IF na.kind # nb.kind THEN Eq(FALSE, s1)
          ELSE IF na.kind = "set"
          THEN IF Len(na.elems) # Len(nb.elems) THEN Eq(FALSE, s1)
               ELSE SetLoop(g, na.elems, 1, nb.elems, s1, fuel - 1)
          ELSE IF na.kind = "array"
          THEN IF Len(na.elems) # Len(nb.elems) THEN Eq(FALSE, s1)
               ELSE PlaceLoop(g, na.elems, nb.elems, 1, s1, fuel - 1)
          ELSE IF Len(na.keys) = 0 /\ Len(nb.keys) = 0 THEN Eq(TRUE, s1)
          ELSE IF Len(na.keys) # Len(nb.keys) THEN Eq(FALSE, s1)
          ELSE KeyLoop(g, na, nb, 1, s1, fuel - 1)

\* deepEqual(a, b) = deepEqualInternal(a, b, new WeakMap())
deepEqualOn(g, a, b) ==
  LET r == deepEqualInternal(g, a, b, {}, MaxDepth)
  IN IF r.thrown THEN Throw(ErrorObj("RangeError: Maximum call stack size exceeded"))
     ELSE Return(Bool(r.eq))

\* deepEqual(a, b) called on two values of the graph
Compare(a, b) ==
  /\ res' = [op |-> "deepEqual", fn |-> "", m |-> 0, args |-> <<>>,
             arg |-> Arr(<<a, b>>), out |-> deepEqualOn(mem, a, b), log |-> <<>>]
  /\ UNCHANGED <<heap, tables, cached, factoryCalls, mem>>

\* node[0] = v on an array, and node[key] = v on a plain object
AssignElem(k, v) ==
  /\ mem[k].kind = "array" /\ mem[k].elems # <<v>>
  /\ mem' = [mem EXCEPT ![k].elems[1] = v]
  /\ UNCHANGED <<heap, tables, cached, factoryCalls, res>>
AssignField(k, key, v) ==
  /\ mem[k].kind = "object" /\ IndexOf(mem[k].keys, key) # 0
  /\ mem[k].elems[IndexOf(mem[k].keys, key)] # v
  /\ mem' = [mem EXCEPT ![k].elems[IndexOf(mem[k].keys, key)] = v]
  /\ UNCHANGED <<heap, tables, cached, factoryCalls, res>>

\* the graphs of the sessions, each holding two separately built values.
\* Nested: 1 and 2 are plain objects { s: Set{x, y}, t: x or y } over two
\* one-element arrays x and y, whose element is a number, the array itself, the
\* other array, or the root; the second is written as { s, t } or as { t, s }.
\* Flat: 1 and 2 are Sets {u, w, [u or w], [u or w]} over two arrays u and w of
\* one number.
Nested(kb) ==
  <<Node("object", <<"s", "t">>, <<Ptr(3), Ptr(5)>>),
    Node("object", kb, IF kb = <<"s", "t">> THEN <<Ptr(4), Ptr(7)>> ELSE <<Ptr(7), Ptr(4)>>),
    Node("set", <<>>, <<Ptr(5), Ptr(6)>>),
    Node("set", <<>>, <<Ptr(7), Ptr(8)>>),
    Node("array", <<>>, <<Num(0)>>), Node("array", <<>>, <<Num(0)>>),
    Node("array", <<>>, <<Num(0)>>), Node("array", <<>>, <<Num(0)>>)>>
Flat ==
  <<Node("set", <<>>, <<Ptr(3), Ptr(4), Ptr(5), Ptr(6)>>),
    Node("set", <<>>, <<Ptr(7), Ptr(8), Ptr(9), Ptr(10)>>),
    Node("array", <<>>, <<Num(0)>>), Node("array", <<>>, <<Num(1)>>),
    Node("array", <<>>, <<Ptr(3)>>), Node("array", <<>>, <<Ptr(4)>>),
    Node("array", <<>>, <<Num(0)>>), Node("array", <<>>, <<Num(1)>>),
    Node("array", <<>>, <<Ptr(7)>>), Node("array", <<>>, <<Ptr(8)>>)>>
IsFlat == mem[1].kind = "set"
\* the values the sessions store in the array k
Assignable(k) ==
  IF IsFlat
  THEN IF k \in {3, 4, 7, 8} THEN {Num(0), Num(1)}
       ELSE IF k \in {5, 6} THEN {Ptr(3), Ptr(4)} ELSE {Ptr(7), Ptr(8)}
  ELSE IF k \in {5, 6} THEN {Num(0), Num(1), Ptr(1), Ptr(5), Ptr(6)}
       ELSE {Num(0), Num(1), Ptr(2), Ptr(7), Ptr(8)}
Compared ==
  IF IsFlat THEN {<<1, 2>>, <<1, 1>>, <<5, 9>>}
  ELSE {<<1, 2>>, <<3, 4>>, <<1, 1>>, <<3, 3>>, <<5, 7>>, <<1, 3>>}
NotCompared == res.op = "none"
InitDeep ==
  /\ heap = <<>>
  /\ tables = <<>>
  /\ cached = [i \in 1..Cap |-> 0]
  /\ factoryCalls = [i \in 1..Cap |-> 0]
  /\ res = NoCall
  /\ mem \in {Nested(<<"s", "t">>), Nested(<<"t", "s">>), Flat}
NextDeep ==
  \/ NotCompared /\ \E k \in 1..Len(mem) : \E v \in Assignable(k) : AssignElem(k, v)
  \/ NotCompared /\ \E k \in 1..2, v \in {5, 6, 7, 8} :
       (v \in {5, 6} <=> k = 1) /\ AssignField(k, "t", Ptr(v))
  \/ NotCompared /\ \E ab \in Compared : Compare(Ptr(ab[1]), Ptr(ab[2]))
SpecDeep == InitDeep /\ [][NextDeep]_vars

\* sessions in which the caller changes the table it handed to the newest all
\* once, after all() has returned and before the Mirror is called
TableFixtures == <<"succ", "zero">>
TableArgs == {Obj(<<"a", "b">>, [k \in Keys |-> Num(0)]),
              Obj(<<"b", "a">>, [k \in Keys |-> IF k = "a" THEN Num(1) ELSE Num(0)])}
\* the table handed to the newest all is still as all() found it
Untouched == tables[heap[Newest].tab] = Snapshot(Newest)
InitTable == InitWith(TableFixtures)
NextTable ==
  \/ \E ks \in KeyOrders : \E f \in [Range(ks) -> Slots] :
       Wraps([k \in 1..Len(ks) |-> f[ks[k]]]) /\ CallAll(ks, f)
  \/ JustBuilt /\ Untouched /\ \E key \in Keys, i \in Slots : AssignEntry(heap[Newest].tab, key, i)
  \/ JustBuilt /\ Untouched /\ \E key \in Keys : DeleteEntry(heap[Newest].tab, key)
  \/ JustBuilt /\ Calls({Newest}, TableArgs)
SpecTable == InitTable /\ [][NextTable]_vars

\* sessions that wrap a Mirror with optional
OptionalFixtures == <<"succ">>
OptionalDefaults == {Num(0), Date(0),
                     Obj(<<"a", "b">>, [k \in Keys |-> IF k = "a" THEN Num(0) ELSE Num(1)])}
OptionalArgs == {Undefined, Num(0), Num(1), Date(0), Date(1),
                 Obj(<<"b", "a">>, [k \in Keys |-> IF k = "a" THEN Num(0) ELSE Num(1)]),
                 Obj(<<"a", "b">>, [k \in Keys |-> Num(1)])}
InitOptional == InitWith(OptionalFixtures)
NextOptional ==
  \/ CallIdentity
  \/ \E i \in Slots, d \in OptionalDefaults : Wraps(<<i>>) /\ CallOptional(i, d)
  \/ JustBuilt /\ Calls({Newest}, OptionalArgs)
SpecOptional == InitOptional /\ [][NextOptional]_vars

\* sessions that update through a lens
LensFixtures == <<"succ">>
LensKeys == {"a", "b"}
Leaf == Obj(<<"a", "b">>, [k \in Keys |-> IF k = "a" THEN Num(0) ELSE Num(1)])
Sources == {Leaf,
            Obj(<<"a">>, [k \in {"a"} |-> Num(0)]),
            Obj(<<"a", "b">>, [k \in Keys |-> IF k = "a" THEN Leaf ELSE Num(1)]),
            Obj(<<"b", "a">>, [k \in Keys |-> Leaf])}
SetValues == {Num(1), Num(MaxVal)}
InitLens == InitWith(LensFixtures)
NextLens ==
  \/ \E key \in LensKeys, inner \in Slots \cup {0} :
       (inner = 0 \/ Wraps(<<inner>>)) /\ CallProp(key, inner)
  \/ \E i, j \in Slots : Wraps(<<i, j>>) /\ CallPipe(<<i, j>>)
  \/ JustBuilt /\ \E source \in Sources, value \in SetValues : CallSet(Newest, source, value)
  \/ JustBuilt /\ \E source \in Sources : Forward(Newest, source)
SpecLens == InitLens /\ [][NextLens]_vars

\* sessions that extend a Mirror with map
MapFixtures == <<"succ", "small">>
MapFns == {"succ", "half"}
MapOverrides == {"none", "custom"}
InitMap == InitWith(MapFixtures)
NextMap ==
  \/ \E i \in Slots, fn \in MapFns, override \in MapOverrides :
       Wraps(<<i>>) /\ CallMap(i, fn, override)
  \/ \E i, j \in Slots : Wraps(<<i, j>>) /\ CallPipe(<<i, j>>)
  \/ JustBuilt /\ Calls({Newest}, NumArgs)
SpecMap == InitMap /\ [][NextMap]_vars

\* sessions that export a schema
SchemaFixtures == <<"succ">>
Defaults == {Num(0), Obj(<<"a">>, [k \in {"a"} |-> Num(1)])}
InitSchema == InitWith(SchemaFixtures)
NextSchema ==
  \/ \E i \in Slots : Wraps(<<i>>) /\ CallNullable(i)
  \/ \E i \in Slots, d \in Defaults : Wraps(<<i>>) /\ CallOptional(i, d)
  \/ \E i \in Slots, text \in Texts : Wraps(<<i>>) /\ CallDescribe(i, text)
  \/ \E i, j \in Slots : Wraps(<<i, j>>) /\ CallPipe(<<i, j>>)
  \/ \E ks \in KeyOrders : \E f \in [Range(ks) -> Slots] :
       Wraps([k \in 1..Len(ks) |-> f[ks[k]]]) /\ CallAll(ks, f)
  \/ \E ks \in KeyOrders : \E f \in [Range(ks) -> Slots] :
       Wraps([k \in 1..Len(ks) |-> f[ks[k]]]) /\ CallObject(ks, f)
  \/ JustBuilt /\ ToJsonSchema(Newest)
SpecSchema == InitSchema /\ [][NextSchema]_vars

\* sessions that compose field by field
AllFixtures == <<"succ", "zero">>
AllArgs == NumArgs \cup
           {Obj(<<"a", "b">>, [k \in Keys |-> Num(0)]),
            Obj(<<"c", "b", "a">>, [k \in Keys \cup {"c"} |-> IF k = "a" THEN Num(1) ELSE Num(0)]),
            Obj(<<"a">>, [k \in {"a"} |-> Num(MaxVal)]),
            Obj(<<"b", "a">>, [k \in Keys |-> Obj(<<"a", "b">>, [j \in Keys |-> Num(0)])])}
InitAll == InitWith(AllFixtures)
NextAll ==
  \/ \E ks \in KeyOrders : \E f \in [Range(ks) -> Slots] :
       Wraps([k \in 1..Len(ks) |-> f[ks[k]]]) /\ CallAll(ks, f)
  \/ \E i, j \in Slots : Wraps(<<i, j>>) /\ CallPipe(<<i, j>>)
  \/ JustBuilt /\ Calls({Newest}, AllArgs)
SpecAll == InitAll /\ [][NextAll]_vars

\* sessions that defer a definition with lazy; the cell of a lazy Mirror outlives
\* a call, so these sessions call any Mirror they built, in any order
LazyFixtures == <<"small">>
LazyArgs == {Num(0), Arr(<<Arr(<<>>)>>)}
InitLazy == InitWith(LazyFixtures)
NextLazy ==
  \/ \E target \in 1..(Len(LazyFixtures) + MaxMirrors) : CallLazy(target)
  \/ \E i, j \in Slots : Wraps(<<i, j>>) /\ CallPipe(<<i, j>>)
  \/ \E i \in Slots : Wraps(<<i>>) /\ CallAll(<<"a">>, [x \in {"a"} |-> i])
  \/ \E i \in Slots : Wraps(<<i>>) /\ CallArray(i)
  \/ \E i \in Slots : Wraps(<<i>>) /\ CallNullable(i)
  \/ \E i \in Slots : Wraps(<<i>>) /\ CallObject(<<"a">>, [x \in {"a"} |-> i])
  \/ Calls(Constructed, LazyArgs)
SpecLazy == InitLazy /\ [][NextLazy]_vars

\* sessions that check the round-trip laws of compositions that type-check.
\* The declared types of the fixtures: succ is a Mirror<N, N> and half a
\* Mirror<N, B>, N being the numbers 0..MaxVal and B the numbers 0..Half.
TypeN == [kind |-> "N", f |-> <<>>]
TypeB == [kind |-> "B", f |-> <<>>]
TypeObject(f) == [kind |-> "object", f |-> f]
FixtureDom(p) == TypeN
FixtureRan(p) == IF p = "half" THEN TypeB ELSE TypeN

\* the declared type A (side = "dom") or B (side = "ran") of a Mirror<A, B> built
\* of fixtures with pipe, Mirror.pipe, all and invert
RECURSIVE TypeOf(_, _, _)
TypeOf(h, i, side) ==
  LET m == h[i]
      inner == IF m.swap THEN (IF side = "dom" THEN "ran" ELSE "dom") ELSE side
  IN CASE m.type = "fixture" -> IF inner = "dom" THEN FixtureDom(m.fn) ELSE FixtureRan(m.fn)
       [] m.type \in {"pipe", "mpipe"} ->
            TypeOf(h, m.kids[IF inner = "dom" THEN 1 ELSE Len(m.kids)], inner)
       [] m.type = "all" ->
            TypeObject([k \in Range(m.keys) |->
                          TypeOf(h, m.meta.parts[CHOOSE n \in 1..Len(m.keys) : m.keys[n] = k],
                                 inner)])
       [] OTHER -> TypeN

RECURSIVE SameType(_, _)
SameType(a, b) ==
  /\ a.kind = b.kind
  /\ a.kind = "object" =>
       /\ DOMAIN a.f = DOMAIN b.f
       /\ \A k \in DOMAIN a.f : SameType(a.f[k], b.f[k])

\* the value v is of the type ty
RECURSIVE InType(_, _)
InType(v, ty) ==
  CASE ty.kind = "N" -> v \in Nums
    [] ty.kind = "B" -> IsNum(v) /\ v.n \in 0..Half
    [] OTHER -> /\ v.t = "object"
                /\ DOMAIN v.f = DOMAIN ty.f
                /\ \A k \in DOMAIN ty.f : InType(v.f[k], ty.f[k])

\* pipe(m1, m2, ...) type-checks: the B of each stage is the A of the next
TypeChecks(h, ms) ==
  \A k \in 1..(Len(ms) - 1) : SameType(TypeOf(h, ms[k], "ran"), TypeOf(h, ms[k + 1], "dom"))

LawFixtures == <<"succ", "half">>
LawArgs == Nums \cup {Obj(<<"a">>, [k \in {"a"} |-> Num(0)]),
                      Obj(<<"a", "b">>, [k \in Keys |-> IF k = "a" THEN Num(1) ELSE Num(0)]),
                      Obj(<<"a">>, [k \in {"a"} |-> Obj(<<"a">>, [j \in {"a"} |-> Num(1)])])}
InitLaw == InitWith(LawFixtures)
NextLaw ==
  \/ \E ms \in SeqsUpTo(Slots, MaxArity) : Wraps(ms) /\ TypeChecks(heap, ms) /\ CallPipe(ms)
  \/ \E f \in [Keys -> Slots] : Wraps(<<f["a"], f["b"]>>) /\ CallAll(<<"b", "a">>, f)
  \/ \E i \in Slots : Wraps(<<i>>) /\ CallAll(<<"a">>, [k \in {"a"} |-> i])
  \/ JustBuilt /\ LawCalls({Newest}, LawArgs)
SpecLaw == InitLaw /\ [][NextLaw]_vars

\* sessions that check the section law of alternatives
AltLawFixtures == <<"low", "zero", "succ">>
InitAltLaw == InitWith(AltLawFixtures)
NextAltLaw ==
  \/ \E i, j \in Slots : Wraps(<<i, j>>) /\ CallOneOf(<<i, j>>)
  \/ JustBuilt /\ \E x \in NumArgs : TestSectionLaw(Newest, x)
SpecAltLaw == InitAltLaw /\ [][NextAltLaw]_vars

\* ---- properties -------------------------------------------------------------------
IsCall == res.op \in {"forward", "backward"}
IsTry == res.op \in {"tryForward", "tryBackward"}
\* the Mirror the last call was made on
Callee == heap[res.m]
\* a constituent is called one frame below the composite
Inner == MaxStack - 1

\* t_k.forward(... t_1.forward(x)), written as the nested application
RECURSIVE NestedForward(_, _, _)
NestedForward(ms, k, x) ==
  IF k = 0 THEN Run(Return(x), <<>>, cached)
  ELSE LET in == NestedForward(ms, k - 1, x)
       IN IF in.out.kind = "throw" THEN in
          ELSE LET r == Apply(Store, in.c, ms[k], "forward", in.out.val, Inner)
               IN Run(r.out, in.log \o r.log, r.c)

\* t_k.backward(... t_n.backward(z)), written as the nested application
RECURSIVE NestedBackward(_, _, _)
NestedBackward(ms, k, z) ==
  IF k > Len(ms) THEN Run(Return(z), <<>>, cached)
  ELSE LET in == NestedBackward(ms, k + 1, z)
       IN IF in.out.kind = "throw" THEN in
          ELSE LET r == Apply(Store, in.c, ms[k], "backward", in.out.val, Inner)
               IN Run(r.out, in.log \o r.log, r.c)

\* C1: pipe(t1..tn).forward(a) is tn.forward(...t1.forward(a)) with the stages
\* invoked in the order 1..n, backward(z) is t1.backward(...tn.backward(z)) with
\* the stages invoked in the order n..1; pipe() is an identity Mirror that returns
\* its argument in both directions, and pipe(t1) returns t1 itself.
C1_PipeThreadsStages ==
  /\ (IsCall /\ Callee.type = "pipe") =>
       LET ms == Callee.kids
           ref == IF res.op = "forward" THEN NestedForward(ms, Len(ms), res.arg)
                  ELSE NestedBackward(ms, 1, res.arg)
       IN /\ Len(ms) >= 2
          /\ res.out = ref.out
          /\ res.log = <<Entry(res.op, res.m)>> \o ref.log
  /\ (res.op = "construct" /\ res.fn = "pipe" /\ Len(res.args) = 1) =>
       res.out = Return(Ref(res.args[1]))
  /\ (res.op = "construct" /\ res.fn = "pipe" /\ Len(res.args) = 0) =>
       /\ res.out.kind = "return"
       /\ heap[res.out.val.i] = identity
  /\ (IsCall /\ Callee.type = "identity") => res.out = Return(res.arg)

\* a backward call on a pipe of different stages, one of them a pipe itself, went
\* through all of them
C1_Witness ==
  /\ res.op = "backward"
  /\ Callee.type = "pipe"
  /\ Callee.kids[1] # Callee.kids[Len(Callee.kids)]
  /\ \E k \in 1..Len(Callee.kids) : heap[Callee.kids[k]].type = "pipe"
  /\ res.out.kind = "return"
  /\ Len(res.log) >= 5

\* the stages of a tree of pipe / Mirror.pipe nodes, left to right
RECURSIVE Stages(_, _)
Stages(h, i) ==
  IF h[i].type \in {"pipe", "mpipe"}
  THEN LET RECURSIVE Cat(_)
           Cat(k) == IF k > Len(h[i].kids) THEN <<>>
                     ELSE Stages(h, h[i].kids[k]) \o Cat(k + 1)
       IN Cat(1)
  ELSE <<i>>

\* the heap after pipe(t1,t2), pipe(t2,t3), pipe(pipe(t1,t2),t3), pipe(t1,pipe(t2,t3)),
\* pipe(t1,t2,t3), t1.pipe(t2) and t1.pipe(t2).pipe(t3) have been constructed on it
Bracketings(h, t1, t2, t3) ==
  LET n == Len(h)
      h1 == Append(h, PipeMirror(h, <<t1, t2>>))
      h2 == Append(h1, PipeMirror(h1, <<t2, t3>>))
      h3 == Append(h2, PipeMirror(h2, <<n + 1, t3>>))
      h4 == Append(h3, PipeMirror(h3, <<t1, n + 2>>))
      h5 == Append(h4, PipeMirror(h4, <<t1, t2, t3>>))
      h6 == Append(h5, MethodPipeMirror(h5, t1, t2))
  IN Append(h6, MethodPipeMirror(h6, n + 6, t3))

\* C2: pipe(pipe(t1,t2),t3), pipe(t1,pipe(t2,t3)), pipe(t1,t2,t3) and
\* t1.pipe(t2).pipe(t3) give the same forward result or raised error and the same
\* backward result or raised error: a call on a composition of three stages ends
\* as the call with the same argument ends on each of the four bracketings.
C2_PipeAssociative ==
  (IsCall /\ Callee.type \in {"pipe", "mpipe"} /\ Len(Stages(heap, res.m)) = 3) =>
    LET st == Stages(heap, res.m)
        hb == Bracketings(heap, st[1], st[2], st[3])
        n == Len(heap)
        c == [i \in 1..(Len(hb) + Cap) |-> 0]
    IN \A form \in {n + 3, n + 4, n + 5, n + 7} :
         Apply([heap |-> hb, tables |-> tables], c, form, res.op, res.arg, MaxStack).out
           = res.out

\* a backward call on a nested composition of three different stages returned
C2_Witness ==
  /\ res.op = "backward"
  /\ Callee.type \in {"pipe", "mpipe"}
  /\ Len(Callee.kids) = 2
  /\ Len(Stages(heap, res.m)) = 3
  /\ Cardinality(Range(Stages(heap, res.m))) >= 2
  /\ res.out.kind = "return"

\* the fixtures and literals a composition of pipe / Mirror.pipe / all is built of
RECURSIVE Constituents(_, _)
Constituents(h, i) ==
  IF h[i].type \in {"pipe", "mpipe", "all"}
  THEN UNION {Constituents(h, h[i].meta.parts[k]) : k \in 1..Len(h[i].meta.parts)}
  ELSE {i}

\* C3: the isLossy flag of pipe(t1..tn) with n >= 2, of t1.pipe(t2) and of
\* all({k1: t1, ...}) is true if and only if at least one constituent is lossy,
\* for every nesting of these combinators.
C3_LossyThroughPipeAndAll ==
  \A i \in Slots :
    heap[i].type \in {"pipe", "mpipe", "all"} =>
      /\ isLossy(heap[i]) <=>
           \E k \in 1..Len(heap[i].meta.parts) : isLossy(heap[heap[i].meta.parts[k]])
      /\ isLossy(heap[i]) <=> \E k \in Constituents(heap, i) : isLossy(heap[k])

\* a lossy composition nested in a composition that has no other lossy constituent,
\* next to a composition without any lossy constituent
C3_Witness ==
  /\ \E i, j \in Slots :
       /\ heap[i].type \in {"pipe", "mpipe", "all"}
       /\ heap[j].type \in {"pipe", "mpipe", "all"}
       /\ \E k \in 1..Len(heap[i].meta.parts) : heap[i].meta.parts[k] = j
       /\ \A k \in 1..Len(heap[i].meta.parts) :
            heap[i].meta.parts[k] # j => ~isLossy(heap[heap[i].meta.parts[k]])
       /\ isLossy(heap[j])
       /\ isLossy(heap[i])

\* what each constituent of ms does on its own with the argument of the last call
Alone(ms, k) == Apply(Store, cached, ms[k], res.op, res.arg, Inner)
\* the constituents of ms that return on the argument of the last call
Winners(ms) == {k \in 1..Len(ms) : Alone(ms, k).out.kind = "return"}
First(ks) == CHOOSE k \in ks : \A j \in ks : k <= j
\* the logs of the constituents 1..k, each run once, in order
RECURSIVE LogsUpTo(_, _)
LogsUpTo(ms, k) == IF k = 0 THEN <<>> ELSE LogsUpTo(ms, k - 1) \o Alone(ms, k).log

\* C4: the isLossy flag of oneOf(t1..tn), of fallback(primary, secondary) and of
\* branch(predicate, thenT, elseT) is the logical OR of the constituents' flags.
C4_LossyThroughAlternatives ==
  \A i \in Slots :
    heap[i].type \in {"oneOf", "branch"} =>
      (isLossy(heap[i]) <=> \E k \in 1..Len(heap[i].kids) : isLossy(heap[heap[i].kids[k]]))

\* C5: oneOf(t1..tn).forward(a) returns ti.forward(a) for the smallest i whose
\* forward does not raise, each constituent before i is invoked exactly once and
\* none after i; backward does the same with the backward functions, whichever
\* constituent won forward; fallback(p, s) is oneOf(p, s).
C5_OneOfFirstMatchWins ==
  /\ (IsCall /\ Callee.type = "oneOf" /\ Winners(Callee.kids) # {}) =>
       LET ms == Callee.kids
           w == First(Winners(ms))
       IN /\ res.out = Alone(ms, w).out
          /\ res.log = <<Entry(res.op, res.m)>> \o LogsUpTo(ms, w)
  /\ (res.op = "construct" /\ res.fn = "fallback") =>
       /\ res.out.kind = "return"
       /\ heap[res.out.val.i].type = "oneOf"
       /\ heap[res.out.val.i].kids = res.args

\* a backward call on a oneOf whose first constituent, a oneOf itself, raised and
\* whose second, another Mirror, accepted the argument
C5_Witness ==
  /\ res.op = "backward"
  /\ Callee.type = "oneOf"
  /\ Len(Callee.kids) >= 2
  /\ First(Winners(Callee.kids) \cup {Len(Callee.kids)}) = 2
  /\ heap[Callee.kids[1]].type = "oneOf"
  /\ Callee.kids[1] # Callee.kids[2]
  /\ res.out.kind = "return"

\* every constituent of the oneOf the last call was made on raised
AllFailed == IsCall /\ Callee.type = "oneOf" /\ Winners(Callee.kids) = {}

\* C6 as stated: when every constituent raises, oneOf raises exactly what the last
\* constituent raised.
C6_RaisesLastRaisedValue ==
  AllFailed => res.out = Alone(Callee.kids, Len(Callee.kids)).out

\* C6: when every constituent of oneOf raises in the requested direction, oneOf
\* returns no value and raises the last constituent's failure as the try methods
\* report it: the Error it raised, or a new Error with the string form of the
\* raised value when that value is not an Error; never an earlier constituent's
\* error and never the generic one.
C6_RaisesLastError ==
  AllFailed =>
    LET last == Alone(Callee.kids, Len(Callee.kids)).out.val
    IN /\ res.out.kind = "throw"
       /\ IsErrorInstance(res.out.val)
       /\ IsErrorInstance(last) => res.out.val = last
       /\ ~IsErrorInstance(last) => res.out.val = ErrorObj(ToStr(last))
       /\ res.out.val.message # "All mirrors failed"

\* a oneOf of two constituents that fail differently was exhausted, the last of
\* them raising a value that is not an Error
C6_Witness ==
  /\ AllFailed
  /\ Len(Callee.kids) >= 2
  /\ Alone(Callee.kids, 1).out.val.t = "Error"
  /\ Alone(Callee.kids, Len(Callee.kids)).out.val.t = "string"
  /\ res.out.kind = "throw"

\* C7: oneOf called with no transform raises at the call; no transform is
\* returned, so no oneOf Mirror without constituents exists whose forward or
\* backward could raise later.
C7_EmptyOneOfRaisesAtConstruction ==
  /\ (res.op = "construct" /\ res.fn = "oneOf" /\ res.args = <<>>) =>
       /\ res.out = Throw(ErrorObj("oneOf requires at least one mirror"))
       /\ \A i \in Slots : heap[i].type = "oneOf" => heap[i].kids # <<>>
  /\ \A i \in Slots : heap[i].type = "oneOf" => heap[i].kids # <<>>
  /\ (IsCall /\ Callee.type = "oneOf" /\ res.out.kind = "throw") =>
       res.out.val.message # "All mirrors failed"

\* oneOf() was called with no argument
C7_Witness ==
  /\ res.op = "construct"
  /\ res.fn = "oneOf"
  /\ res.args = <<>>
  /\ res.out.kind = "throw"

RangeError == ErrorObj("RangeError: Maximum call stack size exceeded")
Positions(log, e) == {k \in 1..Len(log) : log[k] = e}
IsLazy(i) == i \in Slots /\ heap[i].type = "lazy"

\* C8 as stated: over any sequence of forward and backward calls, including calls
\* that raise, the factory of a lazy transform is invoked at most once in total.
C8_FactoryAtMostOnce == \A i \in 1..Cap : factoryCalls[i] <= 1

\* C8: once an invocation of factory has returned a transform, factory is not
\* invoked again and the cell keeps that transform: every later forward or backward
\* call that reaches the lazy transform delegates to it, in the same direction.  (An
\* invocation that raises leaves the cell empty; the next call invokes factory again.)
C8_FactoryNotReinvokedOnceReturned ==
  [][\A i \in 1..Cap :
       /\ cached[i] # 0 =>
            /\ factoryCalls'[i] = factoryCalls[i]
            /\ cached'[i] = cached[i]
            /\ (res'.op \in {"forward", "backward"} /\ IsLazy(i)) =>
                 \A k \in Positions(res'.log, Entry(res'.op, i)) :
                   \/ k < Len(res'.log) /\ res'.log[k + 1] = Entry(res'.op, cached[i])
                   \/ k = Len(res'.log) /\ res'.out = Throw(RangeError)
       /\ (cached[i] = 0 /\ cached'[i] # 0) =>
            \A k \in Positions(res'.log, Entry("factory", i)) :
              /\ k < Len(res'.log)
              /\ res'.log[k + 1] = Entry(res'.op, cached'[i])
              /\ \A later \in Positions(res'.log, Entry("factory", i)) : later <= k
    ]_vars

\* a call that raised went through a lazy transform whose factory had returned on
\* an earlier call, after a first invocation that had raised
C8_Witness ==
  /\ IsCall
  /\ res.out.kind = "throw"
  /\ \E i \in Slots :
       /\ heap[i].type = "lazy"
       /\ cached[i] # 0
       /\ factoryCalls[i] = 2
       /\ Positions(res.log, Entry(res.op, i)) # {}
       /\ Positions(res.log, Entry("factory", i)) = {}

\* C9: lazy(factory) and the constructors that wrap its result (pipe, all, array,
\* nullable, object) never invoke factory; factory is invoked only during a forward
\* or backward call that reaches the lazy transform, and the first such call
\* invokes it, so a definition that refers to itself through lazy is constructed
\* in finitely many steps.
C9_LazyDefersFactory ==
  [][/\ res'.op = "construct" => (factoryCalls' = factoryCalls /\ cached' = cached)
     /\ \A i \in 1..Cap :
          /\ factoryCalls'[i] # factoryCalls[i] =>
               /\ res'.op \in {"forward", "backward"}
               /\ IsLazy(i)
               /\ Positions(res'.log, Entry(res'.op, i)) # {}
          /\ (/\ res'.op \in {"forward", "backward"}
              /\ IsLazy(i)
              /\ cached[i] = 0
              /\ Positions(res'.log, Entry(res'.op, i)) # {}) =>
               /\ factoryCalls'[i] > factoryCalls[i]
               /\ \A k \in Positions(res'.log, Entry(res'.op, i)) :
                    k = Len(res'.log) => res'.out.kind = "throw"
    ]_vars

\* a definition that refers to itself through lazy has just been constructed: the
\* lazy transform is a part of the Mirror its factory returns, and no factory has
\* been invoked yet
C9_Witness ==
  /\ res.op = "construct"
  /\ \A i \in 1..Cap : factoryCalls[i] = 0 /\ cached[i] = 0
  /\ \E i, j \in Slots :
       /\ heap[i].type = "lazy"
       /\ heap[i].target = j
       /\ j > i
       /\ \E k \in 1..Len(heap[j].meta.parts) : heap[j].meta.parts[k] = i
       /\ res.out = Return(Ref(j))

RECURSIVE SameValue(_, _)
SameValue(a, b) ==
  /\ a.t = b.t
  /\ CASE a.t = "array" -> /\ DOMAIN a.s = DOMAIN b.s
                           /\ \A k \in DOMAIN a.s : SameValue(a.s[k], b.s[k])
       [] a.t = "object" -> /\ DOMAIN a.f = DOMAIN b.f
                            /\ \A k \in DOMAIN a.f : SameValue(a.f[k], b.f[k])
       [] OTHER -> a = b

IsLaw == res.op \in {"testSectionLaw", "testRetractionLaw"}
\* the first step of the round trip the last law check made, and the second
LawFirst == Apply(Store, cached, res.m, IF res.op = "testSectionLaw" THEN "backward" ELSE "forward",
                  res.arg, MaxStack)
LawSecond == Apply(Store, cached, res.m, IF res.op = "testSectionLaw" THEN "forward" ELSE "backward",
                   LawFirst.out.val, MaxStack)

ValuesOf(ty) == IF ty.kind = "B" THEN {Num(n) : n \in 0..Half} ELSE Nums

\* the fixture p satisfies the section law on its declared range, its backward
\* function giving values of its declared domain
FixtureSection(p) ==
  \A x \in ValuesOf(FixtureRan(p)) :
    LET y == FixtureFn(p, "backward", x)
    IN /\ y.kind = "return"
       /\ InType(y.val, FixtureDom(p))
       /\ FixtureFn(p, "forward", y.val) = Return(x)

\* the composition i type-checks and every Mirror it is built of satisfies the
\* section law on its range
RECURSIVE LawfulComposition(_, _)
LawfulComposition(h, i) ==
  CASE h[i].type = "fixture" -> FixtureSection(h[i].fn)
    [] h[i].type = "identity" -> TRUE
    [] h[i].type \in {"pipe", "mpipe"} ->
         /\ TypeChecks(h, h[i].kids)
         /\ \A k \in 1..Len(h[i].kids) : LawfulComposition(h, h[i].kids[k])
    [] h[i].type = "all" ->
         \A k \in 1..Len(h[i].meta.parts) : LawfulComposition(h, h[i].meta.parts[k])
    [] OTHER -> FALSE

\* C12: if every constituent satisfies forward(backward(x)) = x for all x of its
\* range, then pipe(t1..tn) satisfies forward(backward(z)) = z for every z of tn's
\* range and all({k1: t1, ...}) satisfies it for every mapping whose keys are
\* exactly k1..kn (with values of the constituents' ranges), for every nesting of
\* the two.
C12_SectionLawPreserved ==
  (/\ res.op = "testSectionLaw"
   /\ Callee.type \in {"pipe", "all"}
   /\ LawfulComposition(heap, res.m)
   /\ InType(res.arg, TypeOf(heap, res.m, "ran"))) =>
    /\ LawFirst.out.kind = "return"
    /\ InType(LawFirst.out.val, TypeOf(heap, res.m, "dom"))
    /\ LawSecond.out.kind = "return"
    /\ SameValue(LawSecond.out.val, res.arg)
    /\ res.out = Return(Bool(TRUE))

\* the section law was checked on an all with a pipe that ends in a stage that is
\* not injective among its fields, with a mapping of the range whose keys come in
\* another order than the fields of the all
C12_Witness ==
  /\ res.op = "testSectionLaw"
  /\ Callee.type = "all"
  /\ LawfulComposition(heap, res.m)
  /\ InType(res.arg, TypeOf(heap, res.m, "ran"))
  /\ res.arg.ks # Callee.keys
  /\ \E k \in 1..Len(Callee.meta.parts) :
       /\ heap[Callee.meta.parts[k]].type = "pipe"
       /\ TypeOf(heap, Callee.meta.parts[k], "ran") = TypeB
  /\ res.out = Return(Bool(TRUE))

\* the fixtures a tree of oneOf nodes is built of
RECURSIVE Options(_, _)
Options(h, i) ==
  IF h[i].type = "oneOf" THEN UNION {Options(h, h[i].kids[k]) : k \in 1..Len(h[i].kids)}
  ELSE {i}

\* Mirror i satisfies the section law on its own range, the values its backward
\* function accepts
SectionOnOwnRange(i) ==
  \A b \in Nums :
    LET back == Apply(Store, cached, i, "backward", b, Inner)
    IN back.out.kind = "return" =>
         Apply(Store, cached, i, "forward", back.out.val, Inner).out = Return(b)

\* the last call checked the section law of a oneOf built purely of non-lossy
\* constituents that satisfy the section law on their own range, with a value that
\* the backward function of the oneOf accepts
OneOfLawCase ==
  /\ res.op = "testSectionLaw"
  /\ Callee.type = "oneOf"
  /\ \A k \in Options(heap, res.m) : ~isLossy(heap[k])
  /\ \A k \in 1..Len(Callee.kids) : SectionOnOwnRange(Callee.kids[k])
  /\ LawFirst.out.kind = "return"

ThenAlone == Alone(Callee.kids, 1)
ElseAlone == Alone(Callee.kids, 2)
\* the predicate of the called branch or filter holds of the argument of the last call
Holds == PredFn(Callee.fn, res.arg)
PredicateCall == Entry("predicate", ClosureOf(heap, res.m))

\* C14: branch(p, thenT, elseT).backward(b) returns thenT.backward(b) whenever that
\* call does not raise, without evaluating p and without invoking elseT; when
\* thenT.backward(b) raises it ends as elseT.backward(b) ends: with its value, or
\* with the very error elseT raised.
C14_BranchBackwardThenFirst ==
  (res.op = "backward" /\ Callee.type = "branch") =>
    /\ Positions(res.log, PredicateCall) = {}
    /\ ThenAlone.out.kind = "return" =>
         /\ res.out = ThenAlone.out
         /\ res.log = <<Entry("backward", res.m)>> \o ThenAlone.log
    /\ ThenAlone.out.kind = "throw" =>
         /\ res.out = ElseAlone.out
         /\ res.log = <<Entry("backward", res.m)>> \o ThenAlone.log \o ElseAlone.log

\* backward was called on a branch, both sides raised, and what reached the caller
\* is the value the else side raised, which is not an Error
C14_Witness ==
  /\ res.op = "backward"
  /\ Callee.type = "branch"
  /\ ThenAlone.out.kind = "throw"
  /\ ThenAlone.out.val.t = "Error"
  /\ ElseAlone.out.kind = "throw"
  /\ ElseAlone.out.val.t = "string"
  /\ res.out = ElseAlone.out

\* C15: branch(p, thenT, elseT).forward(a) ends as thenT.forward(a) when p(a) is
\* true and as elseT.forward(a) otherwise; p is evaluated once, before the chosen
\* side, and only the chosen side's forward is invoked.
C15_BranchForwardByPredicate ==
  (res.op = "forward" /\ Callee.type = "branch") =>
    LET chosen == IF Holds THEN ThenAlone ELSE ElseAlone
    IN /\ res.out = chosen.out
       /\ res.log = <<Entry("forward", res.m), PredicateCall>> \o chosen.log

\* forward was called on a branch of two different Mirrors, the predicate chose a
\* side that raised and the other side would have returned
C15_Witness ==
  /\ res.op = "forward"
  /\ Callee.type = "branch"
  /\ Callee.kids[1] # Callee.kids[2]
  /\ (IF Holds THEN ThenAlone ELSE ElseAlone).out.kind = "throw"
  /\ (IF Holds THEN ElseAlone ELSE ThenAlone).out.kind = "return"
  /\ res.out.kind = "throw"

\* C16: filter(p, message).forward(a) returns a unchanged when p(a) holds, having
\* evaluated p, and raises an Error whose message is `message` when it does not;
\* backward(a) returns a unchanged for every a, values that fail p included, and
\* never evaluates p.
C16_FilterOneSidedGate ==
  (IsCall /\ Callee.type = "filter") =>
    /\ (res.op = "forward" /\ Holds) => res.out = Return(res.arg)
    /\ (res.op = "forward" /\ ~Holds /\ Callee.msg.t = "string") =>
         res.out = Throw(ErrorObj(Callee.msg.s))
    /\ res.op = "forward" => res.log = <<Entry("forward", res.m), PredicateCall>>
    /\ res.op = "backward" =>
         /\ res.out = Return(res.arg)
         /\ res.log = <<Entry("backward", res.m)>>

\* backward was called on a filter that was given a message, with a value that
\* fails the predicate, and returned it
C16_Witness ==
  /\ res.op = "backward"
  /\ Callee.type = "filter"
  /\ Callee.msg.t = "string"
  /\ ~Holds
  /\ res.out = Return(res.arg)

\* the fields of the all the last call was made on, in the order of its keys, and
\* what the Mirror of field k does on its own with the argument's field of that key
Fields == Callee.keys
FieldMirror(k) == tables[Callee.tab].f[Fields[k]]
FieldAlone(k) ==
  Apply(Store, cached, FieldMirror(k), res.op,
        IF HasKey(res.arg, Fields[k]) THEN res.arg.f[Fields[k]] ELSE Undefined, Inner)
RECURSIVE FieldLogs(_)
FieldLogs(k) == IF k = 0 THEN <<>> ELSE FieldLogs(k - 1) \o FieldAlone(k).log
\* the last call was made on an all, with a mapping
AllCase == IsCall /\ Callee.type = "all" /\ res.arg.t = "object"

\* C17: all({k1: t1, ..., kn: tn}).forward(m) returns a mapping whose keys are
\* exactly k1..kn, in construction order, with ti.forward(m[ki]) under each ki, and
\* backward(m') the mapping with ti.backward(m'[ki]) under each ki; the fields of
\* the input under other keys are neither transformed nor copied.
C17_AllFieldWise ==
  (AllCase /\ \A k \in 1..Len(Fields) : FieldAlone(k).out.kind = "return") =>
    /\ res.out.kind = "return"
    /\ res.out.val.t = "object"
    /\ res.out.val.ks = Fields
    /\ DOMAIN res.out.val.f = Range(Fields)
    /\ \A k \in 1..Len(Fields) : res.out.val.f[Fields[k]] = FieldAlone(k).out.val
    /\ res.log = <<Entry(res.op, res.m)>> \o FieldLogs(Len(Fields))

\* backward was called on an all of two fields with a mapping that has a third
\* key and its keys in another order, and returned
C17_Witness ==
  /\ AllCase
  /\ res.op = "backward"
  /\ Len(Fields) = 2
  /\ Len(res.arg.ks) = 3
  /\ res.arg.ks[3] = Fields[1]
  /\ res.out.kind = "return"
  /\ res.out.val.f[Fields[1]] # res.arg.f[Fields[1]]

\* the stages of the pipe the last call was made on, in the order of the traversal
Traversal == IF res.op = "forward" THEN Callee.kids ELSE Reverse(Callee.kids)
\* what the first k stages of the traversal do, each with what the one before returned
RECURSIVE StagesRun(_)
StagesRun(k) ==
  IF k = 0 THEN Run(Return(res.arg), <<>>, cached)
  ELSE LET before == StagesRun(k - 1)
       IN IF before.out.kind = "throw" THEN before
          ELSE LET r == Apply(Store, cached, Traversal[k], res.op, before.out.val, Inner)
               IN Run(r.out, before.log \o r.log, cached)

\* C18: when a constituent raises during pipe(...).forward/backward or
\* all({...}).forward/backward, the value it raised reaches the caller unchanged, no
\* later constituent (later stage of the traversal, later field in key order) is
\* invoked, and no partial result is returned.
C18_FailFast ==
  /\ (IsCall /\ Callee.type = "pipe") =>
       \A k \in 1..Len(Traversal) :
         (StagesRun(k - 1).out.kind = "return" /\ StagesRun(k).out.kind = "throw") =>
           /\ res.out = Apply(Store, cached, Traversal[k], res.op,
                              StagesRun(k - 1).out.val, Inner).out
           /\ res.out.kind = "throw"
           /\ res.log = <<Entry(res.op, res.m)>> \o StagesRun(k).log
  /\ AllCase =>
       \A k \in 1..Len(Fields) :
         (/\ \A j \in 1..(k - 1) : FieldAlone(j).out.kind = "return"
          /\ FieldAlone(k).out.kind = "throw") =>
           /\ res.out = FieldAlone(k).out
           /\ res.log = <<Entry(res.op, res.m)>> \o FieldLogs(k)

\* forward was called on an all of two different fields, the first raised a value
\* that is not an Error and the second would have returned
C18_Witness ==
  /\ AllCase
  /\ res.op = "forward"
  /\ Len(Fields) = 2
  /\ FieldMirror(1) # FieldMirror(2)
  /\ FieldAlone(1).out.kind = "throw"
  /\ FieldAlone(1).out.val.t = "string"
  /\ FieldAlone(2).out.kind = "return"
  /\ res.out = FieldAlone(1).out

\* the Mirror at k is what invert gives of the Mirror constructed just before it
InvertOfPrevious(k) == k \in Constructed /\ k > 1 /\ heap[k] = InvertMirror(heap, k - 1)
\* what a call of direction dir on the Mirror at i does with the last call's argument
OnItsOwn(i, dir) == Apply(Store, cached, i, dir, res.arg, MaxStack)

\* C19: t.invert().forward is t.backward and t.invert().backward is t.forward for
\* every input, the inverted Mirror carries the very metadata node of t (hence the
\* same isLossy), and t.invert().invert() gives the same forward and backward
\* results as t.
C19_Invert ==
  /\ \A k \in Constructed :
       InvertOfPrevious(k) =>
         /\ NodeOf(heap, k) = NodeOf(heap, k - 1)
         /\ heap[k].meta = heap[k - 1].meta
         /\ isLossy(heap[k]) = isLossy(heap[k - 1])
  /\ (IsCall /\ InvertOfPrevious(res.m)) =>
       /\ res.out = OnItsOwn(res.m - 1, Flip(res.op)).out
       /\ Tail(res.log) = Tail(OnItsOwn(res.m - 1, Flip(res.op)).log)
       /\ InvertOfPrevious(res.m - 1) =>
            /\ res.out = OnItsOwn(res.m - 2, res.op).out
            /\ Tail(res.log) = Tail(OnItsOwn(res.m - 2, res.op).log)

\* forward was called on t.invert().invert() for a t whose two directions differ
\* on the argument, and returned
C19_Witness ==
  /\ IsCall
  /\ res.op = "forward"
  /\ InvertOfPrevious(res.m)
  /\ InvertOfPrevious(res.m - 1)
  /\ res.out.kind = "return"
  /\ res.out # OnItsOwn(res.m - 2, "backward").out
  /\ res.out # OnItsOwn(res.m - 1, "forward").out

\* C20: t.describe(text) returns a new Mirror with the forward and backward
\* functions of t and a metadata node equal to t's in kind, lossy flag and payload,
\* with description = text; the metadata node of t, and every other Mirror, is
\* left as it was, also when describe is applied to a described Mirror.
C20_DescribeCopies ==
  [][\A i \in Slots :
       (res'.op = "construct" /\ res'.fn = "describe" /\ res'.args = <<i>>) =>
         LET k == Len(heap')
         IN /\ k = Len(heap) + 1
            /\ res'.out = Return(Ref(k))
            /\ ClosureOf(heap', k) = ClosureOf(heap, i)
            /\ heap'[k].swap = heap[i].swap
            /\ NodeOf(heap', k) = k
            /\ heap'[k].meta.type = heap[i].meta.type
            /\ heap'[k].meta.lossy = heap[i].meta.lossy
            /\ heap'[k].meta.parts = heap[i].meta.parts
            /\ \E text \in Texts : heap'[k].meta.description = Str(text)
            /\ \A text \in Texts : CallDescribe(i, text) => heap'[k].meta.description = Str(text)
            /\ \A j \in 1..Len(heap) : heap'[j] = heap[j]
            /\ tables' = tables]_vars

\* a lossy Mirror was described, the described Mirror was described with another
\* text, and each of the three has the description it was constructed with
C20_Witness ==
  /\ res.op = "construct"
  /\ res.fn = "describe"
  /\ Newest >= 3
  /\ heap[Newest].meta.description = Str("d2")
  /\ heap[Newest - 1].meta.description = Str("d1")
  /\ heap[Newest - 2].meta.description = Undefined
  /\ heap[Newest].closure = Newest - 2
  /\ heap[Newest - 1].closure = Newest - 2
  /\ heap[Newest].meta.lossy = "true"

\* the names of the fields of heap[i] whose metadata node is of a kind that
\* is neither nullable nor optional
PlainFields(i) ==
  {heap[i].keys[k] : k \in {j \in 1..Len(heap[i].keys) :
                              heap[heap[i].meta.parts[j]].meta.type \notin {"nullable", "optional"}}}
\* the names an exported schema lists in `required` (none when it is undefined)
Listed(schema) ==
  IF schema.f["required"].t = "array"
  THEN {schema.f["required"].s[k].s : k \in 1..Len(schema.f["required"].s)}
  ELSE {}

\* C21: the schema exported for an object-like node (kinds object and all) lists in
\* `required` exactly the names of the fields whose descriptor kind is neither
\* nullable nor optional, each once.
C21_RequiredFields ==
  (res.op = "toJsonSchema" /\ Callee.meta.type \in {"object", "all"}) =>
    /\ res.out.kind = "return"
    /\ res.out.val.f["type"] = Str("object")
    /\ Listed(res.out.val) = PlainFields(res.m)
    /\ res.out.val.f["required"].t = "array" =>
         Len(res.out.val.f["required"].s) = Cardinality(PlainFields(res.m))
    /\ res.out.val.f["properties"].ks = Callee.keys

\* the schema of an all with one plain field and one nullable field was exported
C21_Witness ==
  /\ res.op = "toJsonSchema"
  /\ Callee.meta.type = "all"
  /\ Len(Callee.keys) = 2
  /\ \E k \in 1..2 : heap[Callee.meta.parts[k]].meta.type = "nullable"
  /\ Cardinality(PlainFields(res.m)) = 1
  /\ Len(res.out.val.f["required"].s) = 1

\* what f(t.forward(a)) and t.backward(g(c)) give for the map the last call was
\* made on and the call's argument
MapExpected ==
  LET t == Callee.kids[1]
  IN IF res.op = "forward"
     THEN LET r == OnItsOwn(t, "forward")
          IN IF r.out.kind = "throw" THEN r.out
             ELSE FixtureFn(Callee.fn, "forward", r.out.val)
     ELSE LET y == FixtureFn(Callee.fn, "backward", res.arg)
          IN IF y.kind = "throw" THEN y
             ELSE Apply(Store, cached, t, "backward", y.val, MaxStack).out

\* the calls on a map end as f(t.forward(a)) and t.backward(g(c)) do
MapComposes == (IsCall /\ Callee.type = "map") => res.out = MapExpected

\* C22: the Mirror returned by t.map(f, g) has forward(a) = f(t.forward(a)) and
\* backward(c) = t.backward(g(c)), and carries a generic/custom metadata node
\* rather than a node of a named kind.
C22_MapCustomDescriptor ==
  /\ MapComposes
  /\ \A k \in Constructed : heap[k].type = "map" => heap[k].meta.type = "custom"

\* the keys a lens built from prop and pipe descends through, outermost first
RECURSIVE LensPath(_)
LensPath(i) ==
  CASE heap[i].type = "prop" ->
         <<heap[i].fn>> \o (IF heap[i].kids = <<>> THEN <<>> ELSE LensPath(heap[i].kids[1]))
    [] heap[i].type = "pipe" -> LensPath(heap[i].kids[1]) \o LensPath(heap[i].kids[2])
    [] OTHER -> <<>>
\* the lens is made of prop and pipe only
RECURSIVE PureLens(_)
PureLens(i) ==
  CASE heap[i].type = "prop" -> heap[i].kids = <<>> \/ PureLens(heap[i].kids[1])
    [] heap[i].type = "pipe" -> PureLens(heap[i].kids[1]) /\ PureLens(heap[i].kids[2])
    [] OTHER -> FALSE
\* source has an object at every position of the path but the last
RECURSIVE Resolves(_, _)
Resolves(source, path) ==
  /\ source.t = "object"
  /\ Len(path) > 1 => (Head(path) \in DOMAIN source.f /\ Resolves(source.f[Head(path)], Tail(path)))
\* source with value at the position of the path and every other field as it is
RECURSIVE Updated(_, _, _)
Updated(source, path, value) ==
  IF Len(path) = 1 THEN SetProp(source, Head(path), value)
  ELSE SetProp(source, Head(path), Updated(source.f[Head(path)], Tail(path), value))
SetSource == res.arg.s[1]
SetValue == res.arg.s[2]
\* set was called with a lens of prop and pipe on a source the path resolves in
SetCase == res.op = "set" /\ PureLens(res.m) /\ Resolves(SetSource, LensPath(res.m))

\* a lens of one key: the result is source with value under that key
SetOneLevel ==
  (SetCase /\ Len(LensPath(res.m)) = 1) =>
    /\ res.out.kind = "return"
    /\ SameValue(res.out.val, Updated(SetSource, LensPath(res.m), SetValue))

\* C23: set(lens, source, value) returns a new object in which the position the
\* lens points at holds value and every other field of source is preserved at
\* every nesting level along the path of the lens.
C23_SetKeepsSiblings ==
  SetCase =>
    /\ res.out.kind = "return"
    /\ SameValue(res.out.val, Updated(SetSource, LensPath(res.m), SetValue))

\* the regex of the pattern the last call was made on matches the argument
\* somewhere
Matches ==
  \E k \in 0..Len(Chars(res.arg.s)) : MatchAt(Callee.fn, Chars(res.arg.s), k)
PatternCase == res.op = "forward" /\ Callee.type = "pattern" /\ res.arg.t = "string"

\* a pattern whose regex has no g flag gives the same outcome on every call
PatternStableWithoutG ==
  (PatternCase /\ Callee.flags # "g") =>
    res.out.kind = IF Matches THEN "return" ELSE "throw"

\* C24: pattern(regex).forward is stable under repetition: for every regex, with
\* the g flag or without, and every string s, every forward(s) of a sequence of
\* calls on the same Mirror gives the outcome of the first, so a string that matches
\* is accepted on every call.
C24_PatternStable ==
  PatternCase =>
    /\ res.out.kind = IF Matches THEN "return" ELSE "throw"
    /\ Matches => res.out = Return(res.arg)

\* the last call was made on an optional
OptionalCase == IsCall /\ Callee.type = "optional"
\* what the calls on an optional give when the default is compared by value
OptionalByValue ==
  /\ (res.op = "forward" /\ res.arg = Undefined) => res.out = Return(Callee.dflt)
  /\ res.op = "backward" =>
       IF SameValue(res.arg, Callee.dflt) THEN res.out = Return(Undefined)
       ELSE res.out = OnItsOwn(Callee.kids[1], "backward").out

\* with a default and an argument that are not both Dates, optional compares by value
OptionalByValueBesidesDates ==
  (OptionalCase /\ ~(res.arg.t = "date" /\ Callee.dflt.t = "date")) => OptionalByValue

\* C25: optional(inner, d) compares against its default by value: forward(undefined)
\* returns d; backward(b) returns undefined exactly when b deep-equals d (objects by
\* structure, Dates by timestamp) and returns inner.backward(b) for every other b,
\* a Date whose timestamp differs from that of a Date default included.
C25_OptionalByValue == OptionalCase => OptionalByValue

\* the last call was a traversal of the metadata of heap[res.m]
TraversalCase == res.op \in {"sample", "toJsonSchema"}

\* C26: the traversals of metadata are total and terminate: sample() and
\* toJsonSchema() return, for the node of every Mirror: every node refers only to
\* nodes made before it, so no traversal meets a node twice on one path, also for
\* a definition that refers to itself through lazy; a node of the custom kind gives
\* the placeholder (the sample null, a schema without type); no traversal invokes
\* a factory of lazy.
C26_TraversalsTotal ==
  /\ \A i \in Slots : \A k \in 1..Len(heap[i].meta.parts) : heap[i].meta.parts[k] < i
  /\ \A i \in Slots : heap[i].type = "lazy" => heap[i].meta = Meta("custom", "absent", <<>>)
  /\ TraversalCase =>
       /\ res.out.kind = "return"
       /\ res.log = <<>>
       /\ \A l \in 1..Cap : factoryCalls[l] = 0 /\ cached[l] = 0
       /\ Callee.meta.type = "custom" =>
            IF res.op = "sample" THEN res.out.val = Null
            ELSE res.out.val.t = "object" /\ "type" \notin DOMAIN res.out.val.f

\* a definition that refers to itself through lazy, X = nullable(lazy(() => X)) or
\* X = array(lazy(() => X)), was sampled and the traversal reached the node of lazy
C26_Witness ==
  /\ res.op = "sample"
  /\ Callee.type \in {"nullable", "array"}
  /\ heap[Callee.kids[1]].type = "lazy"
  /\ heap[Callee.kids[1]].target = res.m
  /\ res.out.kind = "return"
  /\ res.out.val # Null

\* a number in tenths
Tenths(v) == IF "tenths" \in DOMAIN v THEN v.tenths ELSE RandomDen * v.n
\* the node a sample of heap[i] is drawn for: the last stage of a pipeline
RECURSIVE FinalStage(_)
FinalStage(i) ==
  IF heap[i].meta.type = "pipe" /\ heap[i].meta.parts # <<>>
  THEN FinalStage(heap[i].meta.parts[Len(heap[i].meta.parts)])
  ELSE i
\* the sample v respects the bounds b for a node of the kind type
WithinBounds(type, b, v) ==
  CASE type = "range" ->
         /\ v.t = "number"
         /\ RandomDen * b[1] <= Tenths(v) /\ Tenths(v) <= RandomDen * b[2]
    [] type = "integer" ->
         /\ v.t = "number"
         /\ "n" \in DOMAIN v
         /\ b[1] <= v.n /\ v.n <= b[2]
    [] type = "length" ->
         /\ v.t = "string"
         /\ b[1] <= v.len /\ v.len <= b[2]
    [] type = "array" ->
         /\ v.t = "array"
         /\ b[1] <= Len(v.s) /\ Len(v.s) <= b[2]
    [] OTHER -> TRUE
\* a sample was drawn for a node that declares a lower and an upper bound
BoundedCase ==
  /\ res.op = "sample"
  /\ Len(heap[FinalStage(res.m)].bounds) = 2
  /\ heap[FinalStage(res.m)].bounds[1] <= heap[FinalStage(res.m)].bounds[2]
SampleWithinBounds ==
  /\ res.out.kind = "return"
  /\ WithinBounds(heap[FinalStage(res.m)].meta.type, heap[FinalStage(res.m)].bounds,
                  res.out.val)

\* samples respect the bounds of every node but a length node whose lower bound
\* is above 100
SampleBoundsUpTo100 ==
  (BoundedCase /\ ~(heap[FinalStage(res.m)].meta.type = "length"
                    /\ heap[FinalStage(res.m)].bounds[1] > 100)) => SampleWithinBounds

\* C27: samples respect declared bounds: for every node with min <= max,
\* sampleFromMeta returns a number within [min, max] for a range node, a whole
\* number within [min, max] for an integer node, a string whose length is within
\* [min, max] for a length node and an array whose item count is within
\* [minItems, maxItems] for an array node; a pipeline samples its last stage.
C27_SamplesWithinBounds == BoundedCase => SampleWithinBounds

AsBuiltStore ==
  [heap |-> heap,
   tables |-> [t \in 1..Len(tables) |->
                 IF BuiltFrom(t) = {} THEN tables[t]
                 ELSE Snapshot(CHOOSE i \in BuiltFrom(t) : TRUE)]]
\* the outcome of the call had every table stayed as it was at construction
AsBuilt == Apply(AsBuiltStore, cached, res.m, res.op, res.arg, MaxStack).out
\* every table still holds, under the keys of the construction, what it held then
TableAsBuilt ==
  \A t \in 1..Len(tables) : \A i \in BuiltFrom(t) : \A key \in Range(heap[i].keys) :
    /\ key \in DOMAIN tables[t].f
    /\ tables[t].f[key] = Snapshot(i).f[key]
\* a table holds an entry under a key that was not there at construction
KeyAdded ==
  \E t \in 1..Len(tables) : \E i \in BuiltFrom(t) : DOMAIN tables[t].f # Range(heap[i].keys)

\* entries added to the table under other keys change nothing
AllIgnoresAddedKeys == (AllCase /\ TableAsBuilt) => res.out = AsBuilt
AllIgnoresAddedKeys_Witness == AllCase /\ TableAsBuilt /\ KeyAdded /\ res.out.kind = "return"

\* C30: a Mirror returned by all(table) is fixed at construction: replacing, adding
\* or deleting entries of the table afterwards changes neither the keys the Mirror
\* processes nor the constituent applied to each key, forward and backward, and
\* the behaviour stays that of the constituents its metadata names.
C30_AllFixedAtConstruction == AllCase => res.out = AsBuilt

\* ---- deepEqual: the reference ----------------------------------------------
IsCompare == res.op = "deepEqual"
G == mem
Left == res.arg.s[1]
Right == res.arg.s[2]
Values(g) == {Num(0), Num(1)} \cup {Ptr(k) : k \in 1..Len(g)}
\* the ways of pairing the places 1..n with the places 1..n
Pairings(n) == {f \in [1..n -> 1..n] : \A i, j \in 1..n : i # j => f[i] # f[j]}
\* x and y are the same primitive or the same object, or objects of the same kind
\* whose contents are pairwise related by R: arrays place by place, plain objects
\* key by key, Sets under some pairing of their elements
AlikeUnder(g, R, x, y) ==
  \/ x = y
  \/ /\ x.t = "ref" /\ y.t = "ref"
     /\ LET nx == g[x.k]
            ny == g[y.k]
        IN /\ nx.kind = ny.kind
           /\ Len(nx.elems) = Len(ny.elems)
           /\ CASE nx.kind = "array" ->
                     \A i \in 1..Len(nx.elems) : <<nx.elems[i], ny.elems[i]>> \in R
                [] nx.kind = "object" ->
                     /\ Range(nx.keys) = Range(ny.keys)
                     /\ \A i \in 1..Len(nx.keys) :
                          <<nx.elems[i], ny.elems[IndexOf(ny.keys, nx.keys[i])]>> \in R
                [] nx.kind = "set" ->
                     \E f \in Pairings(Len(nx.elems)) :
                       \A i \in 1..Len(nx.elems) : <<nx.elems[i], ny.elems[f[i]]>> \in R
\* structural equality: the largest relation closed under AlikeUnder
RECURSIVE Largest(_, _)
Largest(g, R) ==
  LET R2 == {p \in R : AlikeUnder(g, R, p[1], p[2])}
  IN IF R2 = R THEN R ELSE Largest(g, R2)
StructurallyEqual(g, x, y) == <<x, y>> \in Largest(g, Values(g) \X Values(g))
\* a node from which a reference leads back to the node itself
RECURSIVE ReachFrom(_, _)
ReachFrom(g, ks) ==
  LET more == ks \cup {e.k : e \in {v \in UNION {Range(g[k].elems) : k \in ks} : v.t = "ref"}}
  IN IF more = ks THEN ks ELSE ReachFrom(g, more)
Below(g, k) == ReachFrom(g, {e.k : e \in {v \in Range(g[k].elems) : v.t = "ref"}})
Cyclic(g, k) == \E j \in Below(g, k) \cup {k} : j \in Below(g, j)

\* x and y were built alike: as AlikeUnder, with the elements of Sets paired in
\* insertion order
AlikeInOrder(g, R, x, y) ==
  \/ x = y
  \/ /\ x.t = "ref" /\ y.t = "ref"
     /\ LET nx == g[x.k]
            ny == g[y.k]
        IN /\ nx.kind = ny.kind
           /\ Len(nx.elems) = Len(ny.elems)
           /\ IF nx.kind = "object"
              THEN /\ Range(nx.keys) = Range(ny.keys)
                   /\ \A i \in 1..Len(nx.keys) :
                        <<nx.elems[i], ny.elems[IndexOf(ny.keys, nx.keys[i])]>> \in R
              ELSE \A i \in 1..Len(nx.elems) : <<nx.elems[i], ny.elems[i]>> \in R
RECURSIVE LargestInOrder(_, _)
LargestInOrder(g, R) ==
  LET R2 == {p \in R : AlikeInOrder(g, R, p[1], p[2])}
  IN IF R2 = R THEN R ELSE LargestInOrder(g, R2)
SameShape(g, x, y) == <<x, y>> \in LargestInOrder(g, Values(g) \X Values(g))

EqualComparesEqual ==
  (IsCompare /\ StructurallyEqual(G, Left, Right)) => res.out = Return(Bool(TRUE))

\* C29: deepEqual(a, b) returns true only if a and b are structurally equal; a
\* pair found unequal earlier in the same call, while the elements of a Set
\* were matched, is not taken as equal when it is met again.
C29_DeepEqualSound ==
  (IsCompare /\ res.out = Return(Bool(TRUE))) => StructurallyEqual(G, Left, Right)

====
